---- MODULE Spec2Model ----
(***************************************************************************)
(* WebDAV backup engine of one-api-hub: the WebDAVService class            *)
(* (src/options/pages/WebDAVBackup.tsx, lines 676-1327, the audit-logged,  *)
(* change-triggered variant), its transport with the proxy retry loop, the *)
(* directory provisioner, and the WebDAV server and chrome.storage.local   *)
(* it talks to.  Texts the program writes in Chinese are rendered in       *)
(* English: the module's strings are ASCII.                                *)
(***************************************************************************)
EXTENDS Integers, Sequences, FiniteSets, TLC

\* ------------------------------------------------------------- bounds
\* Operations started in one behaviour.
MaxCalls == 2
\* Clock ticks (one second each) in one behaviour.
MaxTicks == 1
\* Failures of the environment in one behaviour: a logical request that
\* meets a transport error or a fault status, a rejected storage read or
\* write, a rejected data export.
MaxFaults == 2

\* Snapshot names: the clock is moved on by so many seconds and half hours.
MaxSeconds == 2
MaxHalfHours == 4

\* Listings: a document has at most so many response elements.
MaxEntries == 2

\* -------------------------------------------------- program constants
maxRetries == 3
MaxSyncLogs == 50

\* ------------------------------------------------------------ strings
StartsWith(s, p) == Len(s) >= Len(p) /\ SubSeq(s, 1, Len(p)) = p

EndsWith(s, p) == Len(s) >= Len(p) /\ SubSeq(s, Len(s) - Len(p) + 1, Len(s)) = p

Contains(s, p) == \E i \in 1..(Len(s) - Len(p) + 1) : SubSeq(s, i, i + Len(p) - 1) = p

\* s.split('/'): the pieces between the slashes, empty ones included.
RECURSIVE SplitSlash(_, _, _)
SplitSlash(s, i, cur) ==
    IF i > Len(s) THEN <<cur>>
    ELSE IF SubSeq(s, i, i) = "/" THEN <<cur>> \o SplitSlash(s, i + 1, "")
    ELSE SplitSlash(s, i + 1, cur \o SubSeq(s, i, i))

\* dirPath.split('/').filter(part => part.length > 0)
pathParts(dirPath) == SelectSeq(SplitSlash(dirPath, 1, ""), LAMBDA part : Len(part) > 0)

Digit(d) == SubSeq("0123456789", d + 1, d + 1)

RECURSIVE ToStr(_)
ToStr(n) == IF n < 10 THEN Digit(n) ELSE ToStr(n \div 10) \o Digit(n % 10)

\* String(n).padStart(2, '0')
padStart2(n) == IF Len(ToStr(n)) < 2 THEN "0" \o ToStr(n) ELSE ToStr(n)

\* ------------------------------------------------------ configuration
NoConfig == [none |-> TRUE]

\* getConfig's fallback when the store holds no webdav_config.
DefaultConfig ==
    [enabled |-> FALSE, server_url |-> "", username |-> "", password |-> "",
     backup_path |-> "/webdav", auto_sync_on_change |-> FALSE, last_backup_time |-> 0]

Cfg(en, auto, url, path) ==
    [enabled |-> en, server_url |-> url, username |-> "u", password |-> "p",
     backup_path |-> path, auto_sync_on_change |-> auto, last_backup_time |-> 0]

\* The configurations the options page saves in this model.
ConfigChoices ==
    { Cfg(TRUE, TRUE, "https://h", "/bk"),
      Cfg(TRUE, FALSE, "https://h/", "a/b/"),
      Cfg(FALSE, TRUE, "https://h", "/bk"),
      Cfg(TRUE, TRUE, "https://h", "") }

\* A join that puts a slash between and after whatever it is given.
normalizePathJoin(url, path) == url \o "/" \o path \o "/"

\* normalizePath(url, path)
normalizePath(url, path) ==
    LET baseUrl == IF EndsWith(url, "/") THEN SubSeq(url, 1, Len(url) - 1) ELSE url
        normalizedPath == IF StartsWith(path, "/") THEN path ELSE "/" \o path
        finalPath == IF EndsWith(normalizedPath, "/") THEN normalizedPath
                     ELSE normalizedPath \o "/"
    IN  baseUrl \o finalPath

\* ------------------------------------------------------ snapshot names
\* The calendar fields new Date(t) yields for t milliseconds since the epoch
\* (host clock on UTC): days since the epoch to year, month, day.
CivilFromDays(days) ==
    LET z == days + 719468
        era == z \div 146097
        doe == z - era * 146097
        yoe == (doe - doe \div 1460 + doe \div 36524 - doe \div 146096) \div 365
        doy == doe - (365 * yoe + yoe \div 4 - yoe \div 100)
        mp == (5 * doy + 2) \div 153
        d == doy - (153 * mp + 2) \div 5 + 1
        m == IF mp < 10 THEN mp + 3 ELSE mp - 9
        y == yoe + era * 400 + (IF m <= 2 THEN 1 ELSE 0)
    IN  [year |-> y, month |-> m, day |-> d]

\* `backup-${year}-${month}-${day}_${hour}-${minute}-${second}.json`
backupFilename(backupTimestamp) ==
    LET secs == backupTimestamp \div 1000
        date == CivilFromDays(secs \div 86400)
        hour == (secs \div 3600) % 24
        minute == (secs \div 60) % 60
        second == secs % 60
    IN  "backup-" \o ToStr(date.year) \o "-" \o padStart2(date.month) \o "-"
        \o padStart2(date.day) \o "_" \o padStart2(hour) \o "-" \o padStart2(minute)
        \o "-" \o padStart2(second) \o ".json"

\* getFullYear .. getSeconds read the host's local time.  A host whose zone
\* is one hour ahead of UTC in summer and sets its clocks back at this
\* instant:
SummerTimeEnds == 60 * 60 * 1000

zoneOffset(t) == IF t < SummerTimeEnds THEN 60 * 60 * 1000 ELSE 0

\* The name that host gives a snapshot taken at backupTimestamp.
localFilename(backupTimestamp) ==
    backupFilename(backupTimestamp + zoneOffset(backupTimestamp))

\* ------------------------------------------------------- WebDAV server
\* The server answers under this origin; a resource is named by the
\* segments of its path.  The root collection always exists.
Origin == "https://h"

keyOf(url) == pathParts(SubSeq(url, Len(Origin) + 1, Len(url)))

Parent(key) == SubSeq(key, 1, Len(key) - 1)

Kind(srv, key) ==
    IF key = <<>> \/ key \in srv.dirs THEN "dir"
    ELSE IF key \in srv.files THEN "file"
    ELSE "none"

\* The status an unimpaired server gives: PROPFIND finds a collection or
\* not, MKCOL creates under an existing parent, answers 405 on a mapped URL
\* (RFC 4918 9.3.1) and 409 without the parent, PUT stores under an
\* existing collection, GET and DELETE find the object or not.
HonestStatus(srv, method, key) ==
    CASE method = "PROPFIND" -> IF Kind(srv, key) = "dir" THEN 207 ELSE 404
      [] method = "MKCOL" ->
            IF Kind(srv, key) # "none" THEN 405
            ELSE IF Kind(srv, Parent(key)) = "dir" THEN 201 ELSE 409
      [] method = "PUT" ->
            IF Kind(srv, key) = "dir" THEN 405
            ELSE IF Kind(srv, Parent(key)) = "dir" THEN 201 ELSE 409
      [] method = "GET" -> IF Kind(srv, key) = "file" THEN 200 ELSE 404
      [] method = "DELETE" -> IF Kind(srv, key) = "file" THEN 204 ELSE 404

\* Statuses a server gives for its own reasons, whatever the resource:
\* rejected credentials, missing permission, a lock, quota, outages.
FaultStatuses(method) ==
    CASE method = "PROPFIND" -> {401, 503}
      [] method = "MKCOL" -> {403}
      [] method = "PUT" -> {400, 401, 403, 404, 423, 500, 502, 503, 507}
      [] method = "GET" -> {401}
      [] method = "DELETE" -> {423}

ReasonPhrase(status) ==
    CASE status = 200 -> "OK"
      [] status = 201 -> "Created"
      [] status = 204 -> "No Content"
      [] status = 207 -> "Multi-Status"
      [] status = 400 -> "Bad Request"
      [] status = 401 -> "Unauthorized"
      [] status = 403 -> "Forbidden"
      [] status = 404 -> "Not Found"
      [] status = 405 -> "Method Not Allowed"
      [] status = 409 -> "Conflict"
      [] status = 423 -> "Locked"
      [] status = 500 -> "Internal Server Error"
      [] status = 502 -> "Bad Gateway"
      [] status = 503 -> "Service Unavailable"
      [] status = 507 -> "Insufficient Storage"

\* response.ok
IsOk(status) == status >= 200 /\ status <= 299

\* What a request that the server accepted does to its resources.  A PUT
\* stores the body it carries, here named by the number of the operation
\* that sent it, in place of whatever the URL held; `writer` is that number.
Apply(srv, method, key, status, writer) ==
    IF ~IsOk(status) THEN srv
    ELSE CASE method = "MKCOL" -> [srv EXCEPT !.dirs = @ \cup {key}]
           [] method = "PUT" ->
                [srv EXCEPT !.files = @ \cup {key}, !.junk = @ \ {key},
                            !.body = {p \in @ : p[1] # key} \cup {<<key, writer>>}]
           [] method = "DELETE" ->
                [srv EXCEPT !.files = @ \ {key}, !.junk = @ \ {key},
                            !.body = {p \in @ : p[1] # key}]
           [] OTHER -> srv

\* -------------------------------------------------- directory listing
\* A PROPFIND Depth 1 answer: the namespace prefix the server writes its
\* element names with, and one entry per response element.
NoDoc == [prefix |-> "", entries |-> <<>>]

RECURSIVE SetToSeq(_)
SetToSeq(S) == IF S = {} THEN <<>> ELSE LET x == CHOOSE y \in S : TRUE
                                        IN  <<x>> \o SetToSeq(S \ {x})

RECURSIVE JoinPath(_)
JoinPath(key) == IF key = <<>> THEN "" ELSE "/" \o Head(key) \o JoinPath(Tail(key))

Last(seq) == seq[Len(seq)]

\* The listing of collection `key`: the collection itself, then its members.
\* withNames: whether the server fills in displayname.
ListingDoc(srv, key, prefix, withNames) ==
    LET entry(k, coll) ==
            [displayname |-> IF withNames /\ k # <<>> THEN Last(k) ELSE "",
             href |-> JoinPath(k) \o (IF coll THEN "/" ELSE ""),
             collection |-> coll]
        subdirs == SetToSeq({k \in srv.dirs : k # <<>> /\ Parent(k) = key})
        members == SetToSeq({k \in srv.files : Parent(k) = key})
    IN  [prefix |-> prefix,
         entries |-> <<entry(key, TRUE)>>
                     \o [i \in 1..Len(subdirs) |-> entry(subdirs[i], TRUE)]
                     \o [i \in 1..Len(members) |-> entry(members[i], FALSE)]]

\* ---------------------------------------------------------- variables
VARIABLES
    cache,      \* this.config: the cached configuration, or NoConfig (null)
    durable,    \* chrome.storage.local webdav_config, or NoConfig (unset)
    logs,       \* chrome.storage.local webdav_sync_logs
    server,     \* the WebDAV server's collections and objects
    now,        \* Date.now(), milliseconds
    mode,       \* "proxied" (chrome.runtime.sendMessage exists) or "direct"
    tempWindows, \* the background's Map from request id to temporary window id
    windows,    \* the browser's windows: open, created so far, onRemoved events due
    handlers,   \* the background's temporary-window handler of each request id
    pc,         \* where the running operation is suspended; "idle" if none
    call,       \* the running (or last) operation and its locals
    req,        \* the request sendWebDAVRequest is working on
    resp,       \* what the last sendWebDAVRequest returned or threw
    result,     \* what the last operation returned to its caller
    hist,       \* what the running (or last) operation did
    tasks,      \* the addSyncLog calls under way side by side
    background, \* this.config of the background page's webdavService
    prevEnsure, \* the ensureDirectoryExists call before this operation's
    calls,      \* operations started so far
    faults      \* environment failures so far

vars == <<cache, durable, logs, server, now, mode, tempWindows, windows, handlers,
          pc, call, req, resp, result,
          hist, tasks, background, prevEnsure, calls, faults>>

\* ------------------------------------------------ temporary windows
\* The request ids the popup names its detections with, and how many
\* windows the browser creates.
RequestIds == {"r1", "r2"}
MaxWindows == 3

\* new Map(): no entry.
NoEntries == [r \in {} |-> 0]

\* No window open, none created, no onRemoved event due.
NoWindows == [open |-> {}, created |-> 0, removed |-> {}]

\* No handler at work on a request id, no response sent.
IdleHandler == [action |-> "none", pc |-> "idle", window |-> [id |-> 0, tabId |-> 0],
                response |-> [sent |-> FALSE, success |-> FALSE]]

StartTime == 59 * 1000

IdleCall == [op |-> "none", trigger |-> "", filename |-> "", pathParts |-> <<>>,
             idx |-> 0, currentPath |-> "", backupTimestamp |-> 0]

\* No host answer.
NoAnswer == [kind |-> "", status |-> 0, statusText |-> "", reached |-> FALSE,
             doc |-> NoDoc]

\* Where an attempt stands in time: "ready" to be made, "pending" since it
\* was forwarded, in "backoff" since it failed, or given up with the answer
\* still to come ("late", then "lateArrived"); the answer the host will give
\* and when; the attempts made so far and when each began and ended.
NoWait == [phase |-> "none", since |-> 0, answer |-> NoAnswer, answerAt |-> 0,
           trace |-> <<>>]

NoReq == [method |-> "", depth |-> "", url |-> "", cont |-> "", attempt |-> 0,
          outcomes |-> <<>>, wait |-> NoWait]

NoResp == [threw |-> FALSE, message |-> "", ok |-> FALSE, status |-> 0,
           statusText |-> "", jsonOk |-> FALSE, doc |-> NoDoc, attempts |-> 0,
           outcomes |-> <<>>, trace |-> <<>>, completedAt |-> 0]

NoResult == [op |-> "none", kind |-> "none", success |-> FALSE, message |-> "",
             files |-> <<>>, data |-> ""]

\* A WebDAVResult returned to the caller.
Res(op, success, message) ==
    [op |-> op, kind |-> "value", success |-> success, message |-> message,
     files |-> <<>>, data |-> ""]

\* The operation rejected: the exception reached the caller.
Raised(op, message) ==
    [op |-> op, kind |-> "raised", success |-> FALSE, message |-> message,
     files |-> <<>>, data |-> ""]

\* A Promise<void> resolved.
Void(op) ==
    [op |-> op, kind |-> "void", success |-> FALSE, message |-> "",
     files |-> <<>>, data |-> ""]

NoPut == [status |-> 0, statusText |-> ""]

\* The record of one operation: the state it started in and what it did.
FreshHist ==
    [cache0 |-> cache, durable0 |-> durable, logs0 |-> logs, server0 |-> server,
     config |-> NoConfig,        \* the configuration getConfig returned
     loadFailed |-> FALSE,       \* the storage read of getConfig rejected
     storeFault |-> FALSE,       \* some storage read or write rejected
     netFault |-> FALSE,         \* some attempt got no answer or a fault status
     sent |-> <<>>,              \* the requests sendWebDAVRequest was called with
     exports |-> 0,              \* data-export calls made
     uploads |-> <<>>,           \* triggers uploadBackup was called with
     upResult |-> NoResult,      \* what uploadBackup returned
     ensured |-> "none",         \* what ensureDirectoryExists returned
     ensureDirs |-> {},          \* the server's collections when it returned
     ensureClean |-> FALSE,      \* ... with every request answered unimpaired
     ensurePath |-> "",          \* the dirPath it was called with
     put |-> NoPut,              \* the status line the PUT was answered with
     logCalls |-> <<>>,          \* the entries addSyncLog was called with, and
                                 \* whether the store took them
     response |-> NoResp]        \* what its one request returned or threw

\* The server at the start: empty; or /a and /bk there, /bk holding an
\* object that is no snapshot; or plain objects (no collections) named /bk
\* and /a.
InitServers ==
    { [dirs |-> {}, files |-> {}, junk |-> {}, body |-> {}],
      [dirs |-> {<<"a">>, <<"bk">>}, files |-> {<<"bk", "notes.json">>},
       junk |-> {<<"bk", "notes.json">>}, body |-> {<<<<"bk", "notes.json">>, 0>>}],
      [dirs |-> {}, files |-> {<<"bk">>, <<"a">>}, junk |-> {<<"bk">>, <<"a">>},
       body |-> {<<<<"bk">>, 0>>, <<<<"a">>, 0>>}] }

\* What is kept of an ensureDirectoryExists call once the next operation
\* starts.
NoEnsure == [ensured |-> "none", ensureDirs |-> {}, ensureClean |-> FALSE,
             ensurePath |-> "", server0 |-> [dirs |-> {}, files |-> {}, junk |-> {}, body |-> {}]]

EnsureOf(h) == [ensured |-> h.ensured, ensureDirs |-> h.ensureDirs,
                ensureClean |-> h.ensureClean, ensurePath |-> h.ensurePath,
                server0 |-> h.server0]

\* The environment may fail once more.
FaultsLeft == faults < MaxFaults

\* Whether a storage read or write succeeds; the rejected ones of one
\* operation count as one failure.
OkChoices == IF FaultsLeft \/ hist.storeFault THEN BOOLEAN ELSE {TRUE}

Cost(ok) == IF ok \/ hist.storeFault THEN 0 ELSE 1

\* The same at the start of an operation, whose record is still empty.
OkChoices0 == IF FaultsLeft THEN BOOLEAN ELSE {TRUE}

Cost0(ok) == IF ok THEN 0 ELSE 1

Init ==
    /\ cache = NoConfig
    /\ durable \in {NoConfig} \cup ConfigChoices
    /\ logs = <<>>
    /\ server \in InitServers
    /\ now = StartTime
    /\ mode \in {"proxied", "direct"}
    /\ pc = "idle"
    /\ call = IdleCall
    /\ req = NoReq
    /\ resp = NoResp
    /\ result = NoResult
    /\ hist = [cache0 |-> NoConfig, durable0 |-> durable, logs0 |-> <<>>,
               server0 |-> server, config |-> NoConfig, loadFailed |-> FALSE,
               storeFault |-> FALSE, netFault |-> FALSE,
               sent |-> <<>>, exports |-> 0, uploads |-> <<>>,
               upResult |-> NoResult, ensured |-> "none", ensureDirs |-> {},
               ensureClean |-> FALSE, ensurePath |-> "", put |-> NoPut,
               logCalls |-> <<>>, response |-> NoResp]
    /\ tasks = <<>>
    /\ background = NoConfig
    /\ tempWindows = NoEntries
    /\ windows = NoWindows
    /\ handlers = [r \in RequestIds |-> IdleHandler]
    /\ prevEnsure = NoEnsure
    /\ calls = 0
    /\ faults = 0

\* ---------------------------------------------------------- getConfig
\* getConfig reads the store only while nothing is cached; the read may
\* reject.
LoadChoices == IF cache = NoConfig THEN OkChoices0 ELSE {TRUE}

\* this.config after getConfig; NoConfig when the read rejected.
getConfig(loadOk) ==
    IF cache # NoConfig THEN cache
    ELSE IF ~loadOk THEN NoConfig
    ELSE IF durable = NoConfig THEN DefaultConfig ELSE durable

StorageError == "storage unavailable"

\* --------------------------------------------------------- addSyncLog
\* A cap that keeps the first 50 entries and so drops the new one.
pushCappedKeepFirst(list, newLog) ==
    LET pushed == Append(list, newLog)
    IN  IF Len(pushed) > MaxSyncLogs THEN SubSeq(pushed, 1, MaxSyncLogs) ELSE pushed

\* logs.push(newLog); if (logs.length > 50) logs.splice(0, logs.length - 50)
pushCapped(list, newLog) ==
    LET pushed == Append(list, newLog)
    IN  IF Len(pushed) > MaxSyncLogs
        THEN SubSeq(pushed, Len(pushed) - MaxSyncLogs + 1, Len(pushed))
        ELSE pushed

newLog(trigger, success, message) ==
    [timestamp |-> now, trigger |-> trigger, success |-> success, message |-> message]

\* The stored log after addSyncLog; a rejected read or write is swallowed
\* and leaves the log as it was.
addSyncLog(trigger, success, message, storeOk) ==
    IF storeOk THEN pushCapped(logs, newLog(trigger, success, message)) ELSE logs

\* ------------------------------------------------------ control records
\* Where an operation goes next: the values pc, call, req, result and hist
\* take.
Go(ctl) ==
    /\ pc' = ctl.pc
    /\ call' = ctl.call
    /\ req' = ctl.req
    /\ result' = ctl.result
    /\ hist' = ctl.hist

\* Call sendWebDAVRequest and resume at `cont` with its outcome.
SendCtl(c, h, method, depth, url, cont) ==
    [pc |-> "send", call |-> c, result |-> NoResult,
     req |-> [method |-> method, depth |-> depth, url |-> url, cont |-> cont,
              attempt |-> 1, outcomes |-> <<>>,
              wait |-> [NoWait EXCEPT !.phase = "ready"]],
     hist |-> [h EXCEPT !.sent = Append(@, [method |-> method, depth |-> depth,
                                            url |-> url])]]

ReturnCtl(c, h, res) ==
    [pc |-> "idle", call |-> c, req |-> NoReq, result |-> res, hist |-> h]

NextCtl(c, h, label) ==
    [pc |-> label, call |-> c, req |-> NoReq, result |-> NoResult, hist |-> h]

\* uploadBackup returns r: to its caller, or to syncOnDataChange, which
\* only prints it and resolves.
UploadReturn(c, h, r) ==
    ReturnCtl(c, [h EXCEPT !.upResult = r],
              IF c.op = "sync" THEN Void("sync") ELSE r)

Logged(h, trigger, success, message, storeOk) ==
    [h EXCEPT !.logCalls = Append(@, [trigger |-> trigger, success |-> success,
                                      message |-> message, stored |-> storeOk]),
              !.storeFault = @ \/ ~storeOk]

\* -------------------------------------------------- sendWebDAVRequest
RetryMarker == "extension background script temporarily unavailable"

\* The Error one attempt rejects with.
AttemptError(kind) ==
    CASE kind = "runtimeInvalid" -> "extension runtime invalid, may be reloading"
      [] kind = "timeout" -> "request timeout"
      [] kind = "noReceiver" -> RetryMarker \o ", please retry later"
      [] kind = "portClosed" -> "The message port closed before a response was received."
      [] kind = "noResponse" -> "no response received"
      [] kind = "hostFail" -> "Failed to fetch"
      [] kind = "fetchFail" -> "Failed to fetch"
      [] OTHER -> ""

\* An attempt that got no answer, or a fault status.
IsFault(method, o) == o.kind # "http" \/ o.status \in FaultStatuses(method)

\* What one attempt can meet.  Proxied: the runtime is gone, the host never
\* answers within 30 s (it may still have performed the request),
\* chrome.runtime.lastError says "Receiving end does not exist" or something
\* else, an empty response, the host's fetch raised, or the host relays the
\* server's response.  Direct: fetch raises or resolves.
AttemptOutcomes(r) ==
    LET key == keyOf(r.url)
        plain(k) == [kind |-> k, status |-> 0, statusText |-> "", reached |-> FALSE,
                     doc |-> NoDoc]
        honest == HonestStatus(server, r.method, key)
        docs(st) == IF r.method = "PROPFIND" /\ r.depth = "1" /\ st = 207
                    THEN {ListingDoc(server, key, px, wn) :
                             px \in {"", "d:", "D:"}, wn \in BOOLEAN}
                    ELSE {NoDoc}
        texts(st) == IF IsOk(st) THEN {ReasonPhrase(st)} ELSE {ReasonPhrase(st), ""}
        httpFor(st) == {[kind |-> "http", status |-> st, statusText |-> tx,
                         reached |-> TRUE, doc |-> d] :
                           tx \in texts(st), d \in docs(st)}
        httpOf == UNION {httpFor(st) : st \in {honest} \cup FaultStatuses(r.method)}
        all == IF mode = "proxied"
               THEN {plain("runtimeInvalid"), plain("noReceiver"), plain("portClosed"),
                     plain("noResponse"), plain("hostFail"), plain("timeout"),
                     [plain("timeout") EXCEPT !.reached = TRUE]} \cup httpOf
               ELSE {plain("fetchFail")} \cup httpOf
    IN  IF FaultsLeft \/ r.attempt > 1 THEN all
        ELSE {o \in all : ~IsFault(r.method, o)}


\* A retry loop that also retries after its last attempt.
ShouldRetryOnceMore(attempt, message) ==
    attempt <= maxRetries /\ Contains(message, RetryMarker)

\* A retry loop that retries whatever the attempt failed with.
ShouldRetryAnyError(attempt, message) == attempt < maxRetries

\* A retry loop that also retries a fetch the network failed.
ShouldRetryFailedFetch(attempt, message) ==
    attempt < maxRetries
        /\ (Contains(message, RetryMarker) \/ message = "Failed to fetch")

\* attempt < maxRetries && error.message.includes(marker)
ShouldRetry(attempt, message) == attempt < maxRetries /\ Contains(message, RetryMarker)

\* One pass of the retry loop: an attempt, then a retry, a throw or a return.
sendWebDAVRequest ==
    /\ pc = "send"
    /\ \E o \in AttemptOutcomes(req) :
        LET key == keyOf(req.url)
            threw == o.kind # "http"
            message == AttemptError(o.kind)
            status == IF o.kind = "http" THEN o.status
                      ELSE HonestStatus(server, req.method, key)
            seen == Append(req.outcomes, o.kind)
            fault == IsFault(req.method, o)
        IN  /\ server' = IF o.reached THEN Apply(server, req.method, key, status, calls)
                         ELSE server
            /\ hist' = [hist EXCEPT !.netFault = @ \/ fault]
            /\ faults' = IF fault /\ req.attempt = 1 THEN faults + 1 ELSE faults
            /\ IF threw /\ ShouldRetry(req.attempt, message)
               THEN /\ req' = [req EXCEPT !.attempt = @ + 1, !.outcomes = seen]
                    /\ UNCHANGED <<pc, resp>>
               ELSE /\ pc' = req.cont
                    /\ req' = NoReq
                    /\ resp' = [threw |-> threw, message |-> message,
                                ok |-> ~threw /\ IsOk(o.status),
                                status |-> IF threw THEN 0 ELSE o.status,
                                statusText |-> o.statusText,
                                jsonOk |-> ~threw /\ key \notin server.junk,
                                doc |-> o.doc, attempts |-> req.attempt,
                                outcomes |-> seen, trace |-> <<>>,
                                completedAt |-> 0]
    /\ UNCHANGED <<cache, durable, logs, now, mode, tempWindows, windows, handlers, tasks, background, call, result, prevEnsure, calls>>

\* ------------------------------------------------------- uploadBackup
NotEnabled == "WebDAV backup is not enabled"

\* A status switch without the case for 423.
uploadErrorMessageNoLock(status, statusText) ==
    "upload failed: " \o ToStr(status) \o
    (CASE status = 401 -> " - authentication failed, check the user name and password"
       [] status = 403 -> " - permission denied, check the account's permissions"
       [] status = 404 -> " - path not found, check the server address and the backup path"
       [] status = 507 -> " - insufficient storage"
       [] status = 500 -> " - internal server error"
       [] status = 502 -> " - bad gateway, the server is temporarily unavailable"
       [] status = 503 -> " - service unavailable, the server is temporarily overloaded"
       [] OTHER -> IF statusText # "" THEN " - " \o statusText ELSE "")

\* The diagnostic for a PUT answered with a non-success status.
uploadErrorMessage(status, statusText) ==
    "upload failed: " \o ToStr(status) \o
    (CASE status = 401 -> " - authentication failed, check the user name and password"
       [] status = 403 -> " - permission denied, check the account's permissions"
       [] status = 404 -> " - path not found, check the server address and the backup path"
       [] status = 423 -> " - resource locked, the file may be in use or the server busy, retry later"
       [] status = 507 -> " - insufficient storage"
       [] status = 500 -> " - internal server error"
       [] status = 502 -> " - bad gateway, the server is temporarily unavailable"
       [] status = 503 -> " - service unavailable, the server is temporarily overloaded"
       [] OTHER -> IF statusText # "" THEN " - " \o statusText ELSE "")

\* An upload that goes to the server without looking at `enabled`.
uploadEntryUnchecked(config, c, h) ==
    SendCtl(c, [h EXCEPT !.uploads = Append(@, c.trigger)], "PROPFIND", "0",
            normalizePath(config.server_url, config.backup_path), "ensureFirst")

\* uploadBackup once it holds its configuration: the enabled check, then
\* ensureDirectoryExists' first probe of the whole backup path.
uploadEntry(config, c, h) ==
    LET h1 == [h EXCEPT !.uploads = Append(@, c.trigger)]
    IN  IF ~config.enabled
        THEN UploadReturn(c, h1, Res("upload", FALSE, NotEnabled))
        ELSE SendCtl(c, h1, "PROPFIND", "0",
                     normalizePath(config.server_url, config.backup_path), "ensureFirst")

\* The operation starts: its record, and the configuration getConfig gives.
StartCall(op, trigger, filename) ==
    [IdleCall EXCEPT !.op = op, !.trigger = trigger, !.filename = filename]

StartHist(config) ==
    [FreshHist EXCEPT !.config = config, !.loadFailed = (config = NoConfig),
                      !.storeFault = (config = NoConfig)]

\* An operation starts: the last ensureDirectoryExists call is remembered.
Started ==
    /\ calls' = calls + 1
    /\ prevEnsure' = IF hist.ensured # "none" THEN EnsureOf(hist) ELSE prevEnsure

\* handleBackup: uploadBackup('manual backup').  getConfig is awaited before
\* the try block: a rejected read rejects the call.
uploadBackup ==
    /\ pc = "idle"
    /\ calls < MaxCalls
    /\ \E loadOk \in LoadChoices :
        LET config == getConfig(loadOk)
            c == StartCall("upload", "manual backup", "")
            h == StartHist(config)
        IN  /\ cache' = config
            /\ faults' = faults + Cost0(loadOk)
            /\ Go(IF config = NoConfig
                  THEN ReturnCtl(c, h, Raised("upload", StorageError))
                  ELSE uploadEntry(config, c, h))
    /\ Started
    /\ UNCHANGED <<durable, logs, server, now, mode, tempWindows, windows, handlers, tasks, background, resp>>

\* An upload that goes on to the exports whatever ensureDirectoryExists
\* returned.
ensureReturnUnchecked(c, h, dirCreated) ==
    NextCtl(c, [h EXCEPT !.ensured = IF dirCreated THEN "true" ELSE "false",
                         !.ensureDirs = server.dirs,
                         !.ensureClean = ~h.netFault,
                         !.ensurePath = cache.backup_path], "export")

\* ensureDirectoryExists returns: uploadBackup goes on to the exports, or
\* returns its failure (without an audit entry).
ensureReturn(c, h, dirCreated) ==
    LET h1 == [h EXCEPT !.ensured = IF dirCreated THEN "true" ELSE "false",
                        !.ensureDirs = server.dirs,
                        !.ensureClean = ~h.netFault,
                        !.ensurePath = cache.backup_path]
    IN  IF dirCreated THEN NextCtl(c, h1, "export")
        ELSE UploadReturn(c, h1, Res("upload", FALSE, "cannot create backup directory"))

\* A loop that asks for the creation of the next prefix without probing it.
ensureLoopUnprobed(c, h, idx) ==
    IF idx > Len(c.pathParts) THEN ensureReturn(c, h, TRUE)
    ELSE LET currentPath == c.currentPath \o "/" \o c.pathParts[idx]
         IN  SendCtl([c EXCEPT !.idx = idx, !.currentPath = currentPath], h,
                     "MKCOL", "", normalizePath(cache.server_url, currentPath),
                     "ensureCreate")

\* The loop over pathParts from part number idx on: probe the next prefix,
\* or leave the loop and return true.
ensureLoop(c, h, idx) ==
    IF idx > Len(c.pathParts) THEN ensureReturn(c, h, TRUE)
    ELSE LET currentPath == c.currentPath \o "/" \o c.pathParts[idx]
         IN  SendCtl([c EXCEPT !.idx = idx, !.currentPath = currentPath], h,
                     "PROPFIND", "0", normalizePath(cache.server_url, currentPath),
                     "ensureProbe")

\* A probe whose answer is not looked at.
checkDirectoryExistsNever(r) == FALSE

\* checkDirectoryExists: response.ok, false when the request threw.
checkDirectoryExists(r) == ~r.threw /\ r.ok

\* A creation that takes 409 Conflict for "already there" as well.
createDirectoryConflictOk(r) == ~r.threw /\ (r.ok \/ r.status \in {405, 409})

\* createDirectory: response.ok || response.status === 405, false when the
\* request threw.
createDirectory(r) == ~r.threw /\ (r.ok \/ r.status = 405)

\* ensureDirectoryExists after its first probe.
ensureDirectoryExists ==
    /\ pc = "ensureFirst"
    /\ Go(IF checkDirectoryExists(resp) THEN ensureReturn(call, hist, TRUE)
          ELSE ensureLoop([call EXCEPT !.pathParts = pathParts(cache.backup_path),
                                       !.currentPath = ""], hist, 1))
    /\ resp' = NoResp
    /\ UNCHANGED <<cache, durable, logs, server, now, mode, tempWindows, windows, handlers, tasks, background, prevEnsure, calls, faults>>

\* ... after the probe of one prefix: next part, or create it.
ensureDirectoryExistsProbe ==
    /\ pc = "ensureProbe"
    /\ Go(IF checkDirectoryExists(resp) THEN ensureLoop(call, hist, call.idx + 1)
          ELSE SendCtl(call, hist, "MKCOL", "",
                       normalizePath(cache.server_url, call.currentPath), "ensureCreate"))
    /\ resp' = NoResp
    /\ UNCHANGED <<cache, durable, logs, server, now, mode, tempWindows, windows, handlers, tasks, background, prevEnsure, calls, faults>>

\* ... after the creation request of one prefix.
ensureDirectoryExistsCreate ==
    /\ pc = "ensureCreate"
    /\ Go(IF createDirectory(resp) THEN ensureLoop(call, hist, call.idx + 1)
          ELSE ensureReturn(call, hist, FALSE))
    /\ resp' = NoResp
    /\ UNCHANGED <<cache, durable, logs, server, now, mode, tempWindows, windows, handlers, tasks, background, prevEnsure, calls, faults>>

\* Promise.all of the two exports; on success the timestamp, the file
\* name and the PUT; a rejected export lands in the catch block.
uploadBackupExport ==
    /\ pc = "export"
    /\ \E exportOk \in OkChoices0, storeOk \in BOOLEAN :
        LET h == [hist EXCEPT !.exports = @ + 2]
            backupTimestamp == now
            filename == backupFilename(backupTimestamp)
            errorMessage == "upload error: " \o "export failed"
        IN  IF exportOk
            THEN /\ storeOk
                 /\ faults' = faults
                 /\ Go(SendCtl([call EXCEPT !.backupTimestamp = backupTimestamp,
                                            !.filename = filename], h, "PUT", "",
                               normalizePath(cache.server_url, cache.backup_path)
                                   \o filename, "put"))
                 /\ logs' = logs
            ELSE /\ faults + 1 + Cost(storeOk) <= MaxFaults
                 /\ faults' = faults + 1 + Cost(storeOk)
                 /\ logs' = addSyncLog(call.trigger, FALSE, errorMessage, storeOk)
                 /\ Go(UploadReturn(call,
                                    Logged(h, call.trigger, FALSE, errorMessage, storeOk),
                                    Res("upload", FALSE, errorMessage)))
    /\ UNCHANGED <<cache, durable, server, now, mode, tempWindows, windows, handlers, tasks, background, resp, prevEnsure, calls>>

\* The last backup time read from the clock anew.
stampedNow(config, backupTimestamp) == [config EXCEPT !.last_backup_time = now]

\* config.last_backup_time = backupTimestamp
stamped(config, backupTimestamp) ==
    [config EXCEPT !.last_backup_time = backupTimestamp]

\* The PUT is back.  ok: config.last_backup_time = backupTimestamp on the
\* cached object, then saveConfig, whose failure is not looked at.
\* Otherwise the diagnostic, the audit entry and the failure result.
uploadBackupPut ==
    /\ pc = "put"
    /\ \E storeOk \in OkChoices :
        LET putLine == [status |-> resp.status, statusText |-> resp.statusText] IN
        /\ faults' = faults + Cost(storeOk)
        /\ IF ~resp.threw /\ resp.ok
           THEN LET config == stamped(cache, call.backupTimestamp)
                IN  /\ cache' = config
                    /\ durable' = IF storeOk THEN config ELSE durable
                    /\ logs' = logs
                    /\ Go(NextCtl(call, [hist EXCEPT !.storeFault = @ \/ ~storeOk,
                                                     !.put = putLine], "logSuccess"))
           ELSE LET errorMessage ==
                        IF resp.threw THEN "upload error: " \o resp.message
                        ELSE uploadErrorMessage(resp.status, resp.statusText)
                IN  /\ logs' = addSyncLog(call.trigger, FALSE, errorMessage, storeOk)
                    /\ Go(UploadReturn(call,
                                       Logged([hist EXCEPT !.put = putLine],
                                              call.trigger, FALSE, errorMessage, storeOk),
                                       Res("upload", FALSE, errorMessage)))
                    /\ UNCHANGED <<cache, durable>>
    /\ resp' = NoResp
    /\ UNCHANGED <<server, now, mode, tempWindows, windows, handlers, tasks, background, prevEnsure, calls>>

\* addSyncLog(trigger, true, successMessage) and the success result.
uploadBackupLog ==
    /\ pc = "logSuccess"
    /\ \E storeOk \in OkChoices :
        LET successMessage == "backup uploaded: " \o call.filename
        IN  /\ faults' = faults + Cost(storeOk)
            /\ logs' = addSyncLog(call.trigger, TRUE, successMessage, storeOk)
            /\ Go(UploadReturn(call,
                               Logged(hist, call.trigger, TRUE, successMessage, storeOk),
                               Res("upload", TRUE, successMessage)))
    /\ UNCHANGED <<cache, durable, server, now, mode, tempWindows, windows, handlers, tasks, background, resp, prevEnsure, calls>>

\* ---------------------------------------------------- syncOnDataChange
\* A catch block that logs and throws again.
syncCheckFailedRethrow(c, h, errorMessage, storeOk) ==
    ReturnCtl(c, Logged(h, c.trigger, FALSE, errorMessage, storeOk),
              Raised("sync", errorMessage))

\* The outer catch block: the check failure is logged, nothing is thrown.
syncCheckFailed(c, h, errorMessage, storeOk) ==
    ReturnCtl(c, Logged(h, c.trigger, FALSE, errorMessage, storeOk), Void("sync"))

\* A check that forgets the auto_sync_on_change switch.
syncSkippedIfDisabled(config) == ~config.enabled

\* if (!config.enabled || !config.auto_sync_on_change) return
syncSkipped(config) == ~config.enabled \/ ~config.auto_sync_on_change

\* The whole body is in a try block: a rejected getConfig is logged as a
\* check failure; disabled or auto_sync_on_change off returns at once;
\* otherwise uploadBackup(trigger), whose getConfig finds the cache filled.
syncOnDataChange ==
    /\ pc = "idle"
    /\ calls < MaxCalls
    /\ \E loadOk \in LoadChoices :
        LET trigger == "data change"
            config == getConfig(loadOk)
            c == StartCall("sync", trigger, "")
            h == StartHist(config)
            errorMessage == "sync check failed: " \o StorageError
        IN  /\ cache' = config
            /\ IF config = NoConfig
               THEN \E storeOk \in BOOLEAN :
                    /\ faults' = faults + 1
                    /\ logs' = addSyncLog(trigger, FALSE, errorMessage, storeOk)
                    /\ Go(syncCheckFailed(c, h, errorMessage, storeOk))
               ELSE /\ logs' = logs
                    /\ faults' = faults
                    /\ Go(IF syncSkipped(config)
                          THEN ReturnCtl(c, h, Void("sync"))
                          ELSE uploadEntry(config, c, h))
    /\ Started
    /\ UNCHANGED <<durable, server, now, mode, tempWindows, windows, handlers, tasks, background, resp>>

\* ----------------------------------------- the operations of one request
\* const config = await this.getConfig() at the head of an operation, outside
\* its try block: a rejected read rejects the operation; otherwise it goes
\* on as `entered` says.
Begin(c, loadOk, entered) ==
    /\ pc = "idle"
    /\ calls < MaxCalls
    /\ cache' = getConfig(loadOk)
    /\ faults' = faults + Cost0(loadOk)
    /\ Go(IF getConfig(loadOk) = NoConfig
          THEN ReturnCtl(c, StartHist(NoConfig), Raised(c.op, StorageError))
          ELSE entered)
    /\ Started
    /\ UNCHANGED <<durable, logs, server, now, mode, tempWindows, windows, handlers, tasks, background, resp>>

\* An operation that enters its outcome into the audit log as it returns.
FinishLogged(label, res) ==
    /\ pc = label
    /\ Go(ReturnCtl(call, [hist EXCEPT !.response = resp], res))
    /\ resp' = NoResp
    /\ logs' = addSyncLog(call.op, res.success, res.message, TRUE)
    /\ UNCHANGED <<cache, durable, server, now, mode, tempWindows, windows, handlers, tasks, background, prevEnsure, calls, faults>>

\* The operation resumes with the outcome of its one request and returns.
Finish(label, res) ==
    /\ pc = label
    /\ Go(ReturnCtl(call, [hist EXCEPT !.response = resp], res))
    /\ resp' = NoResp
    /\ UNCHANGED <<cache, durable, logs, server, now, mode, tempWindows, windows, handlers, tasks, background, prevEnsure, calls, faults>>

\* `${response.status} ${response.statusText}`
statusLine(r) == ToStr(r.status) \o " " \o r.statusText

\* ----------------------------------------------------- testConnection
\* A validation that does not look at the user name.
testConfigIncompleteNoUser(config) == ~config.enabled \/ config.server_url = ""

\* !config.enabled || !config.server_url || !config.username
testConfigIncomplete(config) ==
    ~config.enabled \/ config.server_url = "" \/ config.username = ""

testConnection ==
    \E loadOk \in LoadChoices :
        LET c == StartCall("test", "", "")
            config == getConfig(loadOk)
            h == StartHist(config)
        IN  Begin(c, loadOk,
                  IF testConfigIncomplete(config)
                  THEN ReturnCtl(c, h, Res("test", FALSE,
                                           "complete the WebDAV configuration first"))
                  ELSE SendCtl(c, h, "PROPFIND", "0", config.server_url, "test"))

testConnectionResponse ==
    Finish("test",
           IF resp.threw THEN Res("test", FALSE, "connection error: " \o resp.message)
           ELSE IF resp.ok THEN Res("test", TRUE, "WebDAV connection test succeeded")
           ELSE Res("test", FALSE, "connection failed: " \o statusLine(resp)))

\* ----------------------------------------------------- downloadBackup
\* The names the options page asks for: the object that is no snapshot, and
\* the snapshot an upload at the start time writes.
Filenames == {"notes.json", backupFilename(StartTime)}

downloadBackup ==
    \E filename \in Filenames, loadOk \in LoadChoices :
        LET c == StartCall("download", "", filename)
            config == getConfig(loadOk)
            h == StartHist(config)
        IN  Begin(c, loadOk,
                  IF ~config.enabled THEN ReturnCtl(c, h, Res("download", FALSE, NotEnabled))
                  ELSE SendCtl(c, h, "GET", "",
                               normalizePath(config.server_url, config.backup_path)
                                   \o filename, "download"))

\* A download that hands on whatever a success status came with.
downloadBackupUnparsed ==
    Finish("download",
           IF resp.threw THEN Res("download", FALSE, "download error: " \o resp.message)
           ELSE IF ~resp.ok
           THEN Res("download", FALSE, "download failed: " \o statusLine(resp))
           ELSE [Res("download", TRUE, "backup downloaded") EXCEPT
                    !.data = call.filename])

\* response.json() rejects on a body that is no JSON; the catch block turns
\* that into a result too.
downloadBackupResponse ==
    Finish("download",
           IF resp.threw THEN Res("download", FALSE, "download error: " \o resp.message)
           ELSE IF ~resp.ok
           THEN Res("download", FALSE, "download failed: " \o statusLine(resp))
           ELSE IF ~resp.jsonOk
           THEN Res("download", FALSE, "download error: " \o "Unexpected token in JSON")
           ELSE [Res("download", TRUE, "backup downloaded") EXCEPT
                    !.data = call.filename])

\* ------------------------------------------------------ getBackupList
\* Code-unit order of the characters names are written with.
Alphabet == " %-./0123456789:_abcdefghijklmnopqrstuvwxyz"

CodeOf(ch) == CHOOSE i \in 1..Len(Alphabet) : SubSeq(Alphabet, i, i) = ch

\* a < b as Array.prototype.sort() without a comparator orders strings.
RECURSIVE StrLess(_, _)
StrLess(a, b) ==
    IF a = "" THEN b # ""
    ELSE IF b = "" THEN FALSE
    ELSE IF SubSeq(a, 1, 1) = SubSeq(b, 1, 1) THEN StrLess(Tail(a), Tail(b))
    ELSE CodeOf(SubSeq(a, 1, 1)) < CodeOf(SubSeq(b, 1, 1))

\* files.sort()
RECURSIVE sort(_)
sort(files) ==
    IF files = <<>> THEN <<>>
    ELSE LET i == CHOOSE j \in 1..Len(files) :
                      \A k \in 1..Len(files) :
                          ~StrLess(files[k], files[j]) /\ (files[k] = files[j] => j <= k)
         IN  <<files[i]>> \o sort(SubSeq(files, 1, i - 1) \o SubSeq(files, i + 1, Len(files)))

\* A list left in ascending order.
reverseNot(files) == files

\* files.reverse()
reverse(files) == [i \in 1..Len(files) |-> files[Len(files) - i + 1]]

\* String.prototype.trim() on text whose white space is the space.
RECURSIVE trim(_)
trim(s) ==
    IF s = "" THEN ""
    ELSE IF SubSeq(s, 1, 1) = " " THEN trim(Tail(s))
    ELSE IF SubSeq(s, Len(s), Len(s)) = " " THEN trim(SubSeq(s, 1, Len(s) - 1))
    ELSE s

\* The characters the escape sequences of the listings stand for.
Unescaped(hex) ==
    CASE hex = "20" -> " "
      [] hex = "25" -> "%"
      [] hex = "2e" -> "."
      [] hex = "2f" -> "/"
      [] OTHER -> ""

\* A decoder that returns its argument.
decodeNot(s) == [ok |-> TRUE, text |-> s]

\* decodeURIComponent(s): the decoded text, or ok = FALSE where it throws
\* URIError: a '%' that is not followed by an escape.
RECURSIVE decodeURIComponent(_)
decodeURIComponent(s) ==
    IF s = "" THEN [ok |-> TRUE, text |-> ""]
    ELSE IF SubSeq(s, 1, 1) # "%"
    THEN LET rest == decodeURIComponent(Tail(s))
         IN  [ok |-> rest.ok, text |-> SubSeq(s, 1, 1) \o rest.text]
    ELSE IF Len(s) < 3 \/ Unescaped(SubSeq(s, 2, 3)) = ""
    THEN [ok |-> FALSE, text |-> ""]
    ELSE LET rest == decodeURIComponent(SubSeq(s, 4, Len(s)))
         IN  [ok |-> rest.ok, text |-> Unescaped(SubSeq(s, 2, 3)) \o rest.text]

\* The filename of one response element: the trimmed displayname if that is
\* not empty, else the decoded last piece of the trimmed href.
entryName(e) ==
    IF trim(e.displayname) # "" THEN [ok |-> TRUE, text |-> trim(e.displayname)]
    ELSE IF e.href = "" THEN [ok |-> TRUE, text |-> ""]
    ELSE decodeURIComponent(Last(SplitSlash(trim(e.href), 1, "")))

\* parseWebDAVResponse: the response elements are found under the prefixes
\* '', 'd:' and 'D:'; resourcetype is looked up without a prefix only, so a
\* collection is recognised only in a document written without prefixes; a
\* URIError is caught and the result is the empty list.
parseWebDAVResponse(doc) ==
    LET isDirectory(e) == doc.prefix = "" /\ e.collection
        keep(e) == /\ entryName(e).text # ""
                   /\ ~EndsWith(entryName(e).text, "/")
                   /\ ~isDirectory(e)
        kept == SelectSeq(doc.entries, keep)
    IN  IF doc.prefix \notin {"", "d:", "D:"} THEN <<>>
        ELSE IF \E i \in DOMAIN doc.entries : ~entryName(doc.entries[i]).ok THEN <<>>
        ELSE [i \in 1..Len(kept) |-> entryName(kept[i]).text]

\* files.filter(f => f.endsWith('.json')).sort().reverse()
listedFiles(doc) ==
    reverse(sort(SelectSeq(parseWebDAVResponse(doc), LAMBDA f : EndsWith(f, ".json"))))

getBackupList ==
    \E loadOk \in LoadChoices :
        LET c == StartCall("list", "", "")
            config == getConfig(loadOk)
            h == StartHist(config)
        IN  Begin(c, loadOk,
                  IF ~config.enabled THEN ReturnCtl(c, h, Res("list", FALSE, NotEnabled))
                  ELSE SendCtl(c, h, "PROPFIND", "1",
                               normalizePath(config.server_url, config.backup_path),
                               "list"))

getBackupListResponse ==
    Finish("list",
           IF resp.threw THEN Res("list", FALSE, "list error: " \o resp.message)
           ELSE IF ~resp.ok THEN Res("list", FALSE, "list failed: " \o statusLine(resp))
           ELSE [Res("list", TRUE, "backup list fetched") EXCEPT
                    !.files = listedFiles(resp.doc)])

\* ------------------------------------------------------- deleteBackup
deleteBackup ==
    \E filename \in Filenames, loadOk \in LoadChoices :
        LET c == StartCall("delete", "", filename)
            config == getConfig(loadOk)
            h == StartHist(config)
        IN  Begin(c, loadOk,
                  IF ~config.enabled THEN ReturnCtl(c, h, Res("delete", FALSE, NotEnabled))
                  ELSE SendCtl(c, h, "DELETE", "",
                               normalizePath(config.server_url, config.backup_path)
                                   \o filename, "delete"))

deleteBackupResponse ==
    Finish("delete",
           IF resp.threw THEN Res("delete", FALSE, "delete error: " \o resp.message)
           ELSE IF resp.ok
           THEN Res("delete", TRUE, "backup file deleted: " \o call.filename)
           ELSE Res("delete", FALSE, "delete failed: " \o statusLine(resp)))

\* --------------------------------------------------------- saveConfig
\* handleSave: the form, loaded from getConfig and edited, is stored; the
\* cache follows only when the write went through.
saveConfig ==
    /\ pc = "idle"
    /\ calls < MaxCalls
    /\ cache # NoConfig
    /\ \E form \in ConfigChoices, storeOk \in OkChoices0 :
        LET config == [form EXCEPT !.last_backup_time = cache.last_backup_time]
            h == [FreshHist EXCEPT !.config = cache, !.storeFault = ~storeOk]
        IN  /\ durable' = IF storeOk THEN config ELSE durable
            /\ cache' = IF storeOk THEN config ELSE cache
            /\ faults' = faults + Cost0(storeOk)
            /\ Go(ReturnCtl(StartCall("save", "", ""), h, Res("save", storeOk, "")))
    /\ Started
    /\ UNCHANGED <<logs, server, now, mode, tempWindows, windows, handlers, tasks, background, resp>>

\* --------------------------------------------------------------- clock
\* Time passes.  The clock is read when the snapshot is named and when an
\* audit entry is written, so a tick is taken while the PUT between the two
\* is under way.
Tick ==
    /\ pc = "send"
    /\ req.method = "PUT"
    /\ now < StartTime + MaxTicks * 1000
    /\ now' = now + 1000
    /\ UNCHANGED <<cache, durable, logs, server, mode, tempWindows, windows, handlers, tasks, background, pc, call, req, resp, result,
                   hist, prevEnsure, calls, faults>>

Next ==
    \/ Tick
    \/ uploadBackup
    \/ syncOnDataChange
    \/ sendWebDAVRequest
    \/ ensureDirectoryExists
    \/ ensureDirectoryExistsProbe
    \/ ensureDirectoryExistsCreate
    \/ uploadBackupExport
    \/ uploadBackupPut
    \/ uploadBackupLog
    \/ testConnection
    \/ testConnectionResponse
    \/ downloadBackup
    \/ downloadBackupResponse
    \/ getBackupList
    \/ getBackupListResponse
    \/ deleteBackup
    \/ deleteBackupResponse
    \/ saveConfig

Spec == Init /\ [][Next]_vars

\* ------------------------------------- sendWebDAVRequest, with its timers
\* The proxied branch of sendWebDAVRequest step by step, the clock moving
\* from one event to the next.

\* The host answers after so long, or never.
Never == 0 - 1

AnswerDelays == {200, 40 * 1000, Never}

\* What the host can answer a forwarded request with.
HostAnswers(r) == {o \in AttemptOutcomes(r) : o.kind \notin {"runtimeInvalid", "timeout"}}

\* A timer that takes a minute.
timeoutAtMinute(since) == since + 60000

\* setTimeout(() => reject(new Error('request timeout')), 30000)
timeoutAt(since) == since + 30000

\* A wait of one second whatever the attempt.
backoffDelayFlat(attempt) == 1000

\* setTimeout(resolve, 1000 * attempt)
backoffDelay(attempt) == 1000 * attempt

\* The attempts so far and the one that began at `began` and ended at t.
Traced(began, t, kind) ==
    Append(req.wait.trace,
           [attempt |-> req.attempt, forwardedAt |-> began, endedAt |-> t, kind |-> kind])

\* The catch block at time t, the attempt having rejected with the error of
\* `kind`: wait and try again, or throw; `left` is what stays of the request.
attemptRejected(began, t, kind, left) ==
    LET message == AttemptError(kind)
        seen == Append(req.outcomes, kind)
    IN  IF ShouldRetry(req.attempt, message)
        THEN /\ req' = [req EXCEPT !.outcomes = seen,
                                   !.wait = [NoWait EXCEPT !.phase = "backoff", !.since = t,
                                                           !.trace = Traced(began, t, kind)]]
             /\ UNCHANGED <<pc, resp>>
        ELSE /\ pc' = req.cont
             /\ req' = left
             /\ resp' = [NoResp EXCEPT !.threw = TRUE, !.message = message,
                                       !.attempts = req.attempt, !.outcomes = seen,
                                       !.trace = Traced(began, t, kind),
                                       !.completedAt = t]

\* An attempt begins: the runtime is gone and the promise rejects at once, or
\* the timer is set and the request forwarded to the host, which will answer
\* it in its time.
forwardRequest ==
    /\ pc = "send"
    /\ mode = "proxied"
    /\ req.wait.phase = "ready"
    /\ \/ attemptRejected(now, now, "runtimeInvalid", NoReq)
       \/ /\ \E answer \in HostAnswers(req), delay \in AnswerDelays :
               req' = [req EXCEPT !.wait.phase = "pending", !.wait.since = now,
                                  !.wait.answer = answer,
                                  !.wait.answerAt = IF delay = Never THEN Never
                                                    ELSE now + delay]
          /\ UNCHANGED <<pc, resp>>
    /\ UNCHANGED <<cache, durable, logs, server, now, mode, tempWindows, windows, handlers, tasks, background, call, result, hist,
                   prevEnsure, calls, faults>>

\* The callback runs before the timer: the timer is cleared and the promise
\* resolves with the response or rejects with the channel's error.
hostAnswers ==
    /\ pc = "send"
    /\ req.wait.phase = "pending"
    /\ req.wait.answerAt # Never
    /\ req.wait.answerAt < timeoutAt(req.wait.since)
    /\ LET o == req.wait.answer
           t == req.wait.answerAt
           key == keyOf(req.url)
       IN  /\ now' = t
           /\ server' = IF o.reached THEN Apply(server, req.method, key, o.status, calls)
                         ELSE server
           /\ IF o.kind = "http"
              THEN /\ pc' = req.cont
                   /\ req' = NoReq
                   /\ resp' = [NoResp EXCEPT !.ok = IsOk(o.status), !.status = o.status,
                                             !.statusText = o.statusText,
                                             !.jsonOk = key \notin server.junk,
                                             !.doc = o.doc, !.attempts = req.attempt,
                                             !.outcomes = Append(req.outcomes, o.kind),
                                             !.trace = Traced(req.wait.since, t, o.kind),
                                             !.completedAt = t]
              ELSE attemptRejected(req.wait.since, t, o.kind, NoReq)
    /\ UNCHANGED <<cache, durable, logs, mode, tempWindows, windows, handlers, tasks, background, call, result, hist, prevEnsure, calls,
                   faults>>

\* The timer runs first: the promise rejects with the timeout error; an
\* answer still to come finds the promise settled.
timeoutFires ==
    /\ pc = "send"
    /\ req.wait.phase = "pending"
    /\ req.wait.answerAt = Never \/ req.wait.answerAt > timeoutAt(req.wait.since)
    /\ LET t == timeoutAt(req.wait.since)
       IN  /\ now' = t
           /\ attemptRejected(req.wait.since, t, "timeout",
                              IF req.wait.answerAt = Never THEN NoReq
                              ELSE [req EXCEPT !.wait.phase = "late", !.wait.trace = <<>>])
    /\ UNCHANGED <<cache, durable, logs, server, mode, tempWindows, windows, handlers, tasks, background, call, result, hist, prevEnsure,
                   calls, faults>>

\* The wait before the next attempt is over.
backoffElapses ==
    /\ pc = "send"
    /\ req.wait.phase = "backoff"
    /\ now' = req.wait.since + backoffDelay(req.attempt)
    /\ req' = [req EXCEPT !.attempt = @ + 1, !.wait.phase = "ready"]
    /\ UNCHANGED <<cache, durable, logs, server, mode, tempWindows, windows, handlers, tasks, background, pc, call, resp, result, hist,
                   prevEnsure, calls, faults>>

\* The callback of an attempt that timed out runs after all: clearTimeout
\* finds no timer, resolve and reject find the promise settled.
lateAnswer ==
    /\ req.wait.phase = "late"
    /\ now' = IF req.wait.answerAt > now THEN req.wait.answerAt ELSE now
    /\ server' = IF req.wait.answer.reached
                  THEN Apply(server, req.method, keyOf(req.url), req.wait.answer.status, calls)
                  ELSE server
    /\ req' = [req EXCEPT !.wait.phase = "lateArrived"]
    /\ UNCHANGED <<cache, durable, logs, mode, tempWindows, windows, handlers, tasks, background, pc, call, resp, result, hist,
                   prevEnsure, calls, faults>>

TimedInit == Init /\ mode = "proxied"

TimedSend == forwardRequest \/ hostAnswers \/ timeoutFires \/ backoffElapses

TimedNext ==
    \/ testConnection
    \/ forwardRequest
    \/ hostAnswers
    \/ timeoutFires
    \/ backoffElapses
    \/ lateAnswer
    \/ testConnectionResponse

TimedSpec == TimedInit /\ [][TimedNext]_vars

\* Timers run out and callbacks are called: a send that can take a step
\* takes one.
TimedLive == TimedSpec /\ WF_vars(TimedSend)

\* ------------------------------------ sendWebDAVRequest, direct branch
\* return await fetch(url, options): the request goes out and the promise
\* settles when the network does, in its time or never; no timer is set.
fetchRequest ==
    /\ pc = "send"
    /\ mode = "direct"
    /\ req.wait.phase = "ready"
    /\ \E answer \in HostAnswers(req), delay \in AnswerDelays :
           req' = [req EXCEPT !.wait.phase = "fetching", !.wait.since = now,
                              !.wait.answer = answer,
                              !.wait.answerAt = IF delay = Never THEN Never
                                                ELSE now + delay]
    /\ UNCHANGED <<cache, durable, logs, server, now, mode, tempWindows, windows, handlers, tasks, background, pc, call,
                   resp, result, hist, prevEnsure, calls, faults>>

\* fetch resolves with the server's response or rejects; the catch block
\* throws what is no unavailable receiver.
fetchSettles ==
    /\ pc = "send"
    /\ req.wait.phase = "fetching"
    /\ req.wait.answerAt # Never
    /\ LET o == req.wait.answer
           t == req.wait.answerAt
           key == keyOf(req.url)
       IN  /\ now' = t
           /\ server' = IF o.reached THEN Apply(server, req.method, key, o.status, calls)
                         ELSE server
           /\ IF o.kind = "http"
              THEN /\ pc' = req.cont
                   /\ req' = NoReq
                   /\ resp' = [NoResp EXCEPT !.ok = IsOk(o.status), !.status = o.status,
                                             !.statusText = o.statusText,
                                             !.jsonOk = key \notin server.junk,
                                             !.doc = o.doc, !.attempts = req.attempt,
                                             !.outcomes = Append(req.outcomes, o.kind),
                                             !.trace = Traced(req.wait.since, t, o.kind),
                                             !.completedAt = t]
              ELSE attemptRejected(req.wait.since, t, o.kind, NoReq)
    /\ UNCHANGED <<cache, durable, logs, mode, tempWindows, windows, handlers, tasks, background, call, result, hist,
                   prevEnsure, calls, faults>>

\* A connection test in either mode, its request sent with the timers and
\* waits of its branch.
RoundTripSend == TimedSend \/ fetchRequest \/ fetchSettles

RoundTripNext ==
    \/ testConnection
    \/ forwardRequest
    \/ hostAnswers
    \/ timeoutFires
    \/ backoffElapses
    \/ lateAnswer
    \/ fetchRequest
    \/ fetchSettles
    \/ testConnectionResponse

RoundTripSpec == Init /\ [][RoundTripNext]_vars

\* Timers run out and promises that can settle do.
RoundTripLive == RoundTripSpec /\ WF_vars(RoundTripSend)

\* ------------------------------------ the webdavRequest message
\* The callback's response argument when the channel delivered none.
Undefined == [none |-> TRUE]

\* A host that reports only success statuses as success.
handleWebdavHttpRequestOkOnly(o) ==
    IF o.kind = "http" /\ IsOk(o.status)
    THEN [success |-> TRUE, message |-> "",
          data |-> [ok |-> TRUE, status |-> o.status, statusText |-> o.statusText,
                    text |-> o.doc]]
    ELSE [success |-> FALSE, message |-> "Failed to fetch", data |-> Undefined]

\* handleWebdavHttpRequest, its fetch having met o: whatever response the
\* server gave is relayed under success: true; a fetch or a body read that
\* raised gives success: false with the error's message.
handleWebdavHttpRequest(o) ==
    IF o.kind = "http"
    THEN [success |-> TRUE, message |-> "",
          data |-> [ok |-> IsOk(o.status), status |-> o.status,
                    statusText |-> o.statusText, text |-> o.doc]]
    ELSE [success |-> FALSE, message |-> "Failed to fetch", data |-> Undefined]

\* What the callback of chrome.runtime.sendMessage is called with: the
\* channel's lastError when no listener took the message or the port closed,
\* no response at all, or the one response the host sent.
\* handleWebdavMessage awaits handleWebdavHttpRequest and calls sendResponse
\* with its result.
Delivered(o) ==
    CASE o.kind = "noReceiver" ->
            [lastError |-> "Could not establish connection. Receiving end does not exist.",
             responses |-> <<>>]
      [] o.kind = "portClosed" ->
            [lastError |-> "The message port closed before a response was received.",
             responses |-> <<>>]
      [] o.kind = "noResponse" -> [lastError |-> "", responses |-> <<>>]
      [] OTHER -> [lastError |-> "", responses |-> <<handleWebdavHttpRequest(o)>>]

\* The callback: reject on lastError (translated when the receiving end
\* does not exist), on a missing response and on success: false; else
\* resolve with the relayed response.
callbackSettles(lastError, response) ==
    LET rejected(message) == [NoResp EXCEPT !.threw = TRUE, !.message = message]
    IN  IF lastError # ""
        THEN IF Contains(lastError, "Receiving end does not exist")
             THEN rejected(RetryMarker \o ", please retry later")
             ELSE rejected(lastError)
        ELSE IF response = Undefined THEN rejected("no response received")
        ELSE IF ~response.success
        THEN rejected(IF response.message # "" THEN response.message
                      ELSE "request failed")
        ELSE [NoResp EXCEPT !.ok = response.data.ok, !.status = response.data.status,
                            !.statusText = response.data.statusText,
                            !.doc = response.data.text]

\* The message goes to the host; the request reaches the server when the
\* host's fetch does; the callback is about to be called.
handleWebdavMessage ==
    /\ pc = "send"
    /\ mode = "proxied"
    /\ req.wait.phase = "ready"
    /\ \E o \in HostAnswers(req) :
        /\ req' = [req EXCEPT !.wait.phase = "pending", !.wait.answer = Delivered(o),
                              !.outcomes = Append(@, o.kind)]
        /\ server' = IF o.reached
                      THEN Apply(server, req.method, keyOf(req.url), o.status, calls)
                      ELSE server
    /\ UNCHANGED <<cache, durable, logs, now, mode, tempWindows, windows, handlers, tasks, background, pc, call, resp,
                   result, hist, prevEnsure, calls, faults>>

\* The callback runs: the promise settles; the catch block tries again
\* after an unavailable receiver, or the request returns or throws.
sendMessageCallback ==
    /\ pc = "send"
    /\ req.wait.phase = "pending"
    /\ LET d == req.wait.answer
           response == IF d.responses = <<>> THEN Undefined ELSE d.responses[1]
           settled == callbackSettles(d.lastError, response)
           trace == Append(req.wait.trace, d)
       IN  IF settled.threw /\ ShouldRetry(req.attempt, settled.message)
           THEN /\ req' = [req EXCEPT !.attempt = @ + 1,
                                      !.wait = [NoWait EXCEPT !.phase = "ready",
                                                              !.trace = trace]]
                /\ UNCHANGED <<pc, resp>>
           ELSE /\ pc' = req.cont
                /\ req' = NoReq
                /\ resp' = [settled EXCEPT !.attempts = req.attempt,
                                           !.outcomes = req.outcomes,
                                           !.jsonOk = ~settled.threw,
                                           !.trace = trace]
    /\ UNCHANGED <<cache, durable, logs, server, now, mode, tempWindows, windows, handlers, tasks, background, call,
                   result, hist, prevEnsure, calls, faults>>

\* Connection tests and deletes through the host.
HostNext ==
    \/ testConnection
    \/ deleteBackup
    \/ handleWebdavMessage
    \/ sendMessageCallback
    \/ testConnectionResponse
    \/ deleteBackupResponse

HostSpec == TimedInit /\ [][HostNext]_vars

\* -------------------------------------- the background's temporary windows
\* tempWindows.get, .set and .delete; 0 stands for undefined.
mapGet(entries, requestId) ==
    IF requestId \in DOMAIN entries THEN entries[requestId] ELSE 0

mapSet(entries, requestId, windowId) ==
    [r \in DOMAIN entries \cup {requestId} |->
        IF r = requestId THEN windowId ELSE entries[r]]

mapDelete(entries, requestId) ==
    [r \in DOMAIN entries \ {requestId} |-> entries[r]]

\* The browser opens its next window; its onRemoved event is due when the
\* window goes.
createWindow(ws) ==
    [ws EXCEPT !.open = @ \cup {ws.created + 1}, !.created = @ + 1]

removeWindow(ws, windowId) ==
    [ws EXCEPT !.open = @ \ {windowId}, !.removed = @ \cup {windowId}]

\* sendResponse.
Responded(h, success) ==
    [h EXCEPT !.pc = "done", !.response = [sent |-> TRUE, success |-> success]]

\* The catch block of handleAutoDetectSite: the recorded window, if an
\* entry is there, is removed and the entry deleted; a removal the browser
\* rejects (no such window) is logged and leaves the entry; the failure is
\* answered in every case.
autoDetectCatch(requestId, ws, entries, h) ==
    LET windowId == mapGet(entries, requestId)
        removes == windowId # 0 /\ windowId \in ws.open
    IN  /\ windows' = IF removes THEN removeWindow(ws, windowId) ELSE ws
        /\ tempWindows' = IF removes THEN mapDelete(entries, requestId) ELSE entries
        /\ handlers' = [handlers EXCEPT ![requestId] = Responded(h, FALSE)]

\* The message is taken and chrome.windows.create settles with a
\* rejection, a window object without an id, a window without a first tab's
\* id, or a window with both: without a window id or a first tab's id the
\* handler throws before recording anything; else the window is recorded
\* and the handler waits for the tab.
handleAutoDetectSite(requestId) ==
    /\ handlers[requestId].pc \in {"idle", "done"}
    /\ windows.created < MaxWindows
    /\ \E o \in {"rejected", "noId", "noTab", "window"} :
        LET opened == o \in {"noTab", "window"}
            ws == IF opened THEN createWindow(windows) ELSE windows
            id == IF opened THEN ws.created ELSE 0
            h == [IdleHandler EXCEPT !.action = "autoDetectSite",
                                     !.window = [id |-> id,
                                                 tabId |-> IF o = "window" THEN id ELSE 0]]
        IN  IF o = "window"
            THEN /\ windows' = ws
                 /\ tempWindows' = mapSet(tempWindows, requestId, id)
                 /\ handlers' = [handlers EXCEPT ![requestId] =
                                    [h EXCEPT !.pc = "waitForTabComplete"]]
            ELSE autoDetectCatch(requestId, ws, tempWindows, h)
    /\ UNCHANGED <<cache, durable, logs, server, now, mode, pc, call, req, resp,
                   result, hist, tasks, background, prevEnsure, calls, faults>>

\* waitForTabComplete settles: the tab is complete and a second has gone by,
\* or ten seconds went by first, or chrome.tabs.get reported that the tab
\* is gone.
waitForTabComplete(requestId) ==
    /\ handlers[requestId].pc = "waitForTabComplete"
    /\ LET h == handlers[requestId]
           there == h.window.id \in windows.open
       IN  \E o \in IF there THEN {"complete", "timeout"} ELSE {"lastError", "timeout"} :
            IF o = "complete"
            THEN /\ handlers' = [handlers EXCEPT ![requestId].pc = "sendMessage"]
                 /\ UNCHANGED <<tempWindows, windows>>
            ELSE autoDetectCatch(requestId, windows, tempWindows, h)
    /\ UNCHANGED <<cache, durable, logs, server, now, mode, pc, call, req, resp,
                   result, hist, tasks, background, prevEnsure, calls, faults>>

\* chrome.tabs.sendMessage settles: the content script's answer with
\* success: true has the window removed, the entry deleted and the data
\* sent back; success: false, or a rejection (no content script, tab gone),
\* or a rejected removal end in the catch block.
tabsSendMessage(requestId) ==
    /\ handlers[requestId].pc = "sendMessage"
    /\ LET h == handlers[requestId]
           there == h.window.id \in windows.open
       IN  \E o \in IF there THEN {"success", "failure", "rejected"} ELSE {"rejected"} :
            IF o = "success"
            THEN /\ windows' = removeWindow(windows, h.window.id)
                 /\ tempWindows' = mapDelete(tempWindows, requestId)
                 /\ handlers' = [handlers EXCEPT ![requestId] = Responded(h, TRUE)]
            ELSE autoDetectCatch(requestId, windows, tempWindows, h)
    /\ UNCHANGED <<cache, durable, logs, server, now, mode, pc, call, req, resp,
                   result, hist, tasks, background, prevEnsure, calls, faults>>

\* handleOpenTempWindow: the created window is recorded under the request
\* id and its id sent back; no window, no entry.
handleOpenTempWindow(requestId) ==
    /\ handlers[requestId].pc \in {"idle", "done"}
    /\ windows.created < MaxWindows
    /\ \E o \in {"rejected", "noId", "window"} :
        LET ws == IF o = "window" THEN createWindow(windows) ELSE windows
            h == [IdleHandler EXCEPT !.action = "openTempWindow",
                                     !.window.id = IF o = "window" THEN ws.created ELSE 0]
        IN  /\ windows' = ws
            /\ tempWindows' = IF o = "window"
                               THEN mapSet(tempWindows, requestId, ws.created)
                               ELSE tempWindows
            /\ handlers' = [handlers EXCEPT ![requestId] = Responded(h, o = "window")]
    /\ UNCHANGED <<cache, durable, logs, server, now, mode, pc, call, req, resp,
                   result, hist, tasks, background, prevEnsure, calls, faults>>

\* handleCloseTempWindow: the recorded window is removed and the entry
\* deleted; without an entry there is nothing to do; a rejected removal is
\* answered as a failure.
handleCloseTempWindow(requestId) ==
    /\ handlers[requestId].pc = "done"
    /\ LET windowId == mapGet(tempWindows, requestId)
           h == [IdleHandler EXCEPT !.action = "closeTempWindow"]
       IN  IF windowId = 0
           THEN /\ handlers' = [handlers EXCEPT ![requestId] = Responded(h, TRUE)]
                /\ UNCHANGED <<tempWindows, windows>>
           ELSE IF windowId \in windows.open
           THEN /\ windows' = removeWindow(windows, windowId)
                /\ tempWindows' = mapDelete(tempWindows, requestId)
                /\ handlers' = [handlers EXCEPT ![requestId] = Responded(h, TRUE)]
           ELSE /\ handlers' = [handlers EXCEPT ![requestId] = Responded(h, FALSE)]
                /\ UNCHANGED <<tempWindows, windows>>
    /\ UNCHANGED <<cache, durable, logs, server, now, mode, pc, call, req, resp,
                   result, hist, tasks, background, prevEnsure, calls, faults>>

\* The user closes a temporary window.
userClosesWindow(windowId) ==
    /\ windowId \in windows.open
    /\ windows' = removeWindow(windows, windowId)
    /\ UNCHANGED <<cache, durable, logs, server, now, mode, tempWindows, handlers,
                   pc, call, req, resp, result, hist, tasks, background, prevEnsure,
                   calls, faults>>

\* The chrome.windows.onRemoved listener runs for a window that went: the
\* first entry holding the window's id is deleted.
onRemoved(windowId) ==
    /\ windowId \in windows.removed
    /\ windows' = [windows EXCEPT !.removed = @ \ {windowId}]
    /\ LET holders == {r \in DOMAIN tempWindows : tempWindows[r] = windowId}
       IN  tempWindows' = IF holders = {} THEN tempWindows
                          ELSE mapDelete(tempWindows, CHOOSE r \in holders : TRUE)
    /\ UNCHANGED <<cache, durable, logs, server, now, mode, handlers,
                   pc, call, req, resp, result, hist, tasks, background, prevEnsure,
                   calls, faults>>

\* The background starts with no temporary window and no handler at work.
DetectInit == TimedInit /\ durable = NoConfig

DetectNext ==
    \/ \E requestId \in RequestIds :
        \/ handleAutoDetectSite(requestId)
        \/ waitForTabComplete(requestId)
        \/ tabsSendMessage(requestId)
        \/ handleOpenTempWindow(requestId)
        \/ handleCloseTempWindow(requestId)
    \/ \E windowId \in 1..MaxWindows :
        \/ userClosesWindow(windowId)
        \/ onRemoved(windowId)

DetectSpec == DetectInit /\ [][DetectNext]_vars

\* ------------------------------------------- testing the connection
\* Stored configurations, complete or not: enabled or not, with or without
\* a server URL and a user name.
TestConfigs ==
    {[Cfg(en, TRUE, url, "/bk") EXCEPT !.username = un] :
        en \in BOOLEAN, url \in {"", "https://h"}, un \in {"", "u"}}

TestInit ==
    /\ cache = NoConfig
    /\ durable \in TestConfigs
    /\ logs = <<>>
    /\ server \in InitServers
    /\ now = StartTime
    /\ mode \in {"proxied", "direct"}
    /\ pc = "idle"
    /\ call = IdleCall
    /\ req = NoReq
    /\ resp = NoResp
    /\ result = NoResult
    /\ hist = FreshHist
    /\ tasks = <<>>
    /\ background = NoConfig
    /\ tempWindows = NoEntries
    /\ windows = NoWindows
    /\ handlers = [r \in RequestIds |-> IdleHandler]
    /\ prevEnsure = NoEnsure
    /\ calls = 0
    /\ faults = 0

TestNext == testConnection \/ sendWebDAVRequest \/ testConnectionResponse

TestSpec == TestInit /\ [][TestNext]_vars

\* ------------------------------------------- stored forms of the paths
\* The forms server_url and backup_path may be saved in: the URL with or
\* without a trailing slash, the path with or without a leading and a
\* trailing one, or empty, or the slash alone.
PathConfigs ==
    {Cfg(TRUE, TRUE, base \o t, path) :
        base \in {"https://h", "https://h:8080/dav"}, t \in {"", "/"},
        path \in {"", "/"} \cup {l \o body \o r : l \in {"", "/"}, r \in {"", "/"},
                                                  body \in {"bk", "a/b", "x.d"}}}

\* The extension with one of them stored.
PathInit ==
    /\ cache = NoConfig
    /\ durable \in PathConfigs
    /\ logs = <<>>
    /\ server \in InitServers
    /\ now = StartTime
    /\ mode \in {"proxied", "direct"}
    /\ pc = "idle"
    /\ call = IdleCall
    /\ req = NoReq
    /\ resp = NoResp
    /\ result = NoResult
    /\ hist = FreshHist
    /\ tasks = <<>>
    /\ background = NoConfig
    /\ tempWindows = NoEntries
    /\ windows = NoWindows
    /\ handlers = [r \in RequestIds |-> IdleHandler]
    /\ prevEnsure = NoEnsure
    /\ calls = 0
    /\ faults = 0

\* getBackupList up to its request, whose URL is the normalized path.
PathNext == getBackupList

PathSpec == PathInit /\ [][PathNext]_vars

\* ------------------------------------------- listings of any server
\* The response elements a server may write: the collection /bk with or
\* without a display name; objects with a display name, a blank one or none,
\* whose href is plain, escaped, wrongly escaped or empty.
ListedEntries ==
    {[displayname |-> dn, href |-> "/bk/", collection |-> TRUE] : dn \in {"", "bk"}}
    \cup {[displayname |-> dn, href |-> hr, collection |-> FALSE] :
              dn \in {"", " ", "a.json"},
              hr \in {"/bk/a.json", "/bk/my%20file.json", "/bk/bad%zz.json", ""}}

\* The documents: any prefix, one of them unknown to the parser, and up to
\* MaxEntries response elements.
Documents ==
    {[prefix |-> px, entries |-> es] :
        px \in {"", "d:", "D:", "ns0:"},
        es \in UNION {[1..n -> ListedEntries] : n \in 0..MaxEntries}}

\* The request for the listing is answered 207 with one of the documents.
listAnswered ==
    /\ pc = "send"
    /\ req.method = "PROPFIND"
    /\ req.depth = "1"
    /\ \E doc \in Documents :
        resp' = [threw |-> FALSE, message |-> "", ok |-> TRUE, status |-> 207,
                 statusText |-> ReasonPhrase(207), jsonOk |-> FALSE, doc |-> doc,
                 attempts |-> req.attempt, outcomes |-> <<"http">>,
                 trace |-> <<>>, completedAt |-> 0]
    /\ pc' = req.cont
    /\ req' = NoReq
    /\ UNCHANGED <<cache, durable, logs, server, now, mode, tempWindows, windows, handlers, tasks, background, call, result, hist,
                   prevEnsure, calls, faults>>

ParseNext == getBackupList \/ listAnswered \/ getBackupListResponse

ParseSpec == Init /\ [][ParseNext]_vars

\* ------------------------------------------------ naming snapshots
\* Lines 987-995 of uploadBackup on a host with summer time: the snapshot
\* taken now gets its timestamp and its name.
nameSnapshot ==
    /\ pc = "idle"
    /\ call' = [call EXCEPT !.op = "upload", !.backupTimestamp = now,
                            !.filename = localFilename(now)]
    /\ UNCHANGED <<cache, durable, logs, server, now, mode, tempWindows, windows, handlers, tasks, background, pc, req, resp, result,
                   hist, prevEnsure, calls, faults>>

\* Time passes between two uploads: a second, or half an hour.
Elapse ==
    /\ pc = "idle"
    /\ LET passed == now - StartTime
       IN  \/ /\ (passed % (30 * 60 * 1000)) \div 1000 < MaxSeconds
              /\ now' = now + 1000
           \/ /\ passed \div (30 * 60 * 1000) < MaxHalfHours
              /\ now' = now + 30 * 60 * 1000
    /\ UNCHANGED <<cache, durable, logs, server, mode, tempWindows, windows, handlers, tasks, background, pc, call, req, resp, result,
                   hist, prevEnsure, calls, faults>>

NameNext == nameSnapshot \/ Elapse

NameSpec == Init /\ [][NameNext]_vars

\* ------------------------------------------- the audit log near its cap
\* The log n earlier uploads left behind, one entry a second, the triggers
\* alternating.
StoredLog(n) ==
    [i \in 1..n |->
        [timestamp |-> i * 1000,
         trigger |-> IF i % 2 = 0 THEN "manual backup" ELSE "data change",
         success |-> TRUE,
         message |-> "backup uploaded: " \o backupFilename(i * 1000)]]

\* The extension with a log of any length up to the cap already stored.
LogInit ==
    /\ cache = NoConfig
    /\ durable \in {NoConfig} \cup ConfigChoices
    /\ logs \in {StoredLog(n) : n \in 0..MaxSyncLogs}
    /\ server \in InitServers
    /\ now = StartTime
    /\ mode \in {"proxied", "direct"}
    /\ pc = "idle"
    /\ call = IdleCall
    /\ req = NoReq
    /\ resp = NoResp
    /\ result = NoResult
    /\ hist = [FreshHist EXCEPT !.cache0 = NoConfig]
    /\ tasks = <<>>
    /\ background = NoConfig
    /\ tempWindows = NoEntries
    /\ windows = NoWindows
    /\ handlers = [r \in RequestIds |-> IdleHandler]
    /\ prevEnsure = NoEnsure
    /\ calls = 0
    /\ faults = 0

\* Data changes whose configuration check fails append one entry each.
LogNext == syncOnDataChange

LogSpec == LogInit /\ [][LogNext]_vars

\* ------------------------------------- addSyncLog calls side by side
\* The upload attempts that may overlap, by trigger: handleBackup's manual
\* backup and a data-change sync.
Appenders == {"manual backup", "data change"}

\* An attempt that has not reached addSyncLog yet.
IdleTask ==
    [phase |-> "idle", logs |-> <<>>,
     entry |-> [timestamp |-> 0, trigger |-> "", success |-> FALSE, message |-> ""],
     failed |-> FALSE, cleared |-> FALSE]

\* The attempt of trigger t calls addSyncLog(trigger, success, message) and
\* is suspended in the storage read.
addSyncLogCalled(t) ==
    /\ tasks[t].phase = "idle"
    /\ \E success \in BOOLEAN :
        LET message == IF success THEN "backup uploaded: " \o backupFilename(now)
                       ELSE "upload error: request timeout"
        IN  tasks' = [tasks EXCEPT ![t].phase = "get",
                                   ![t].entry = newLog(t, success, message)]
    /\ UNCHANGED <<cache, durable, logs, server, now, mode, tempWindows, windows, handlers, pc, call, req, resp,
                   result, hist, background, prevEnsure, calls, faults>>

\* The read resolves: logs = result.webdav_sync_logs || [], the new entry is
\* pushed and the list cut to the cap; the call is suspended in the write.
\* A rejected read is swallowed by the catch block.
addSyncLogGet(t) ==
    /\ tasks[t].phase = "get"
    /\ \E ok \in OkChoices0 :
        /\ tasks' = IF ok
                    THEN [tasks EXCEPT ![t].phase = "set",
                                       ![t].logs = pushCapped(logs, tasks[t].entry)]
                    ELSE [tasks EXCEPT ![t].phase = "done", ![t].failed = TRUE]
        /\ faults' = faults + Cost0(ok)
    /\ UNCHANGED <<cache, durable, logs, server, now, mode, tempWindows, windows, handlers, pc, call, req, resp,
                   result, hist, background, prevEnsure, calls>>

\* chrome.storage.local.set({ webdav_sync_logs: logs }) with the list the
\* call holds; a rejected write is swallowed by the catch block.
addSyncLogSet(t) ==
    /\ tasks[t].phase = "set"
    /\ \E ok \in OkChoices0 :
        /\ logs' = IF ok THEN tasks[t].logs ELSE logs
        /\ tasks' = [tasks EXCEPT ![t].phase = "done", ![t].failed = ~ok]
        /\ faults' = faults + Cost0(ok)
    /\ UNCHANGED <<cache, durable, server, now, mode, tempWindows, windows, handlers, pc, call, req, resp,
                   result, hist, background, prevEnsure, calls>>

\* The clear button of the log card, shown while there are entries: the
\* stored log is set to []; the entries written so far are gone.
clearLogs ==
    /\ logs # <<>>
    /\ \E ok \in OkChoices0 :
        /\ logs' = IF ok THEN <<>> ELSE logs
        /\ tasks' = [t \in DOMAIN tasks |->
                        IF ok /\ tasks[t].phase = "done" /\ ~tasks[t].failed
                        THEN [tasks[t] EXCEPT !.cleared = TRUE] ELSE tasks[t]]
        /\ faults' = faults + Cost0(ok)
    /\ UNCHANGED <<cache, durable, server, now, mode, tempWindows, windows, handlers, pc, call, req, resp,
                   result, hist, background, prevEnsure, calls>>

\* Two upload attempts about to log, the stored log empty, short or at its
\* cap.
AppendInit ==
    /\ cache = NoConfig
    /\ durable \in {NoConfig} \cup ConfigChoices
    /\ logs \in {StoredLog(n) : n \in {0, 1, MaxSyncLogs - 1, MaxSyncLogs}}
    /\ server \in InitServers
    /\ now = StartTime
    /\ mode \in {"proxied", "direct"}
    /\ pc = "idle"
    /\ call = IdleCall
    /\ req = NoReq
    /\ resp = NoResp
    /\ result = NoResult
    /\ hist = [FreshHist EXCEPT !.cache0 = NoConfig]
    /\ tasks = [t \in Appenders |-> IdleTask]
    /\ background = NoConfig
    /\ tempWindows = NoEntries
    /\ windows = NoWindows
    /\ handlers = [r \in RequestIds |-> IdleHandler]
    /\ prevEnsure = NoEnsure
    /\ calls = 0
    /\ faults = 0

AppendNext ==
    \/ \E t \in Appenders : addSyncLogCalled(t)
    \/ \E t \in Appenders : addSyncLogGet(t)
    \/ \E t \in Appenders : addSyncLogSet(t)
    \/ clearLogs

AppendSpec == AppendInit /\ [][AppendNext]_vars

\* ------------------------------------- two instances over one store
\* The background page holds the webdavService of services/webdavService.ts,
\* with a cache of its own, over the same webdav_config.
LegacyDefaultConfig ==
    [enabled |-> FALSE, server_url |-> "", username |-> "", password |-> "",
     backup_path |-> "/backups/one-api-hub/", auto_backup |-> FALSE,
     backup_interval |-> 24, last_backup_time |-> 0]

BackgroundLoadChoices == IF background = NoConfig THEN OkChoices0 ELSE {TRUE}

\* Its getConfig: the cache if there is one, else the store, else its default.
backgroundGetConfig(loadOk) ==
    IF background # NoConfig THEN background
    ELSE IF ~loadOk THEN NoConfig
    ELSE IF durable = NoConfig THEN LegacyDefaultConfig ELSE durable

\* backup-<ISO date>-<Date.now()>.json
legacyFilename(t) ==
    LET date == CivilFromDays((t \div 1000) \div 86400)
    IN  "backup-" \o ToStr(date.year) \o "-" \o padStart2(date.month) \o "-"
        \o padStart2(date.day) \o "-" \o ToStr(t) \o ".json"

\* Its loop over the path prefixes against an unimpaired server: probe,
\* create what is missing, give up at the first creation that is neither ok
\* nor 405.
RECURSIVE legacyEnsureLoop(_, _, _)
legacyEnsureLoop(srv, parts, idx) ==
    IF idx > Len(parts) THEN [ok |-> TRUE, server |-> srv]
    ELSE LET key == SubSeq(parts, 1, idx)
             status == HonestStatus(srv, "MKCOL", key)
         IN  IF IsOk(HonestStatus(srv, "PROPFIND", key))
             THEN legacyEnsureLoop(srv, parts, idx + 1)
             ELSE IF IsOk(status) \/ status = 405
             THEN legacyEnsureLoop(Apply(srv, "MKCOL", key, status, 0), parts, idx + 1)
             ELSE [ok |-> FALSE, server |-> srv]

legacyEnsureDirectoryExists(srv, config) ==
    IF IsOk(HonestStatus(srv, "PROPFIND",
                         keyOf(normalizePath(config.server_url, config.backup_path))))
    THEN [ok |-> TRUE, server |-> srv]
    ELSE legacyEnsureLoop(srv, pathParts(config.backup_path), 1)

\* loadConfig of the options page, run when it mounts, when it gets the
\* focus, and by its storage listener when webdav_config changed: the form
\* is set from getConfig, which reads the store only while nothing is cached.
loadConfig ==
    /\ pc = "idle"
    /\ \E loadOk \in LoadChoices :
        /\ cache' = getConfig(loadOk)
        /\ faults' = faults + Cost0(loadOk)
    /\ UNCHANGED <<durable, logs, server, now, mode, tempWindows, windows, handlers, pc, call, req, resp, result,
                   hist, tasks, background, prevEnsure, calls>>

\* An operation of the background's instance returns res, having worked on
\* config.
BackgroundReturn(op, config, res) ==
    Go(ReturnCtl(StartCall(op, "", ""),
                 [FreshHist EXCEPT !.config = config,
                                   !.loadFailed = (config = NoConfig)], res))

\* The message webdavTest: the background's testConnection takes its
\* configuration from getConfig, validates it and probes server_url; the
\* probe changes nothing.  unimpaired = FALSE stands for a probe that is
\* rejected or refused.
backgroundTestConnection ==
    /\ pc = "idle"
    /\ \E loadOk \in BackgroundLoadChoices, unimpaired \in BOOLEAN :
        LET config == backgroundGetConfig(loadOk)
        IN  /\ background' = config
            /\ faults' = faults + Cost0(loadOk)
            /\ BackgroundReturn("webdavTest", config,
                   IF config = NoConfig THEN Res("webdavTest", FALSE, StorageError)
                   ELSE IF testConfigIncomplete(config)
                   THEN Res("webdavTest", FALSE,
                            "complete the WebDAV configuration first")
                   ELSE IF unimpaired
                   THEN Res("webdavTest", TRUE, "WebDAV connection successful")
                   ELSE Res("webdavTest", FALSE, "connection failed"))
    /\ UNCHANGED <<cache, durable, logs, server, now, mode, tempWindows, windows, handlers, resp, tasks,
                   prevEnsure, calls>>

\* The message webdavBackup: the background's uploadBackup.  With its
\* requests answered by an unimpaired server it provisions the directory
\* and PUTs the snapshot; on a success status it assigns last_backup_time
\* on its cached object and saves that object.  unimpaired = FALSE stands
\* for requests that are rejected before any reaches the server.
backgroundUploadBackup ==
    /\ pc = "idle"
    /\ calls < MaxCalls
    /\ \E loadOk \in BackgroundLoadChoices, unimpaired \in BOOLEAN,
          storeOk \in OkChoices0 :
        LET config == backgroundGetConfig(loadOk)
            ensured == legacyEnsureDirectoryExists(server, config)
            filename == legacyFilename(now)
            key == Append(keyOf(normalizePath(config.server_url, config.backup_path)),
                          filename)
            status == HonestStatus(ensured.server, "PUT", key)
            saved == [config EXCEPT !.last_backup_time = now]
        IN  IF config = NoConfig \/ ~config.enabled \/ ~unimpaired
            THEN /\ storeOk
                 /\ background' = config
                 /\ faults' = faults + Cost0(loadOk)
                 /\ BackgroundReturn("webdavBackup", config,
                        IF config = NoConfig
                        THEN Res("webdavBackup", FALSE, StorageError)
                        ELSE IF ~config.enabled
                        THEN Res("webdavBackup", FALSE, NotEnabled)
                        ELSE Res("webdavBackup", FALSE, "upload error"))
                 /\ UNCHANGED <<durable, server>>
            ELSE IF ~ensured.ok \/ ~IsOk(status)
            THEN /\ storeOk
                 /\ background' = config
                 /\ server' = ensured.server
                 /\ faults' = faults
                 /\ BackgroundReturn("webdavBackup", config,
                        IF ~ensured.ok
                        THEN Res("webdavBackup", FALSE, "cannot create backup directory")
                        ELSE Res("webdavBackup", FALSE,
                                 "upload failed: " \o ToStr(status) \o " "
                                     \o ReasonPhrase(status)))
                 /\ UNCHANGED durable
            ELSE /\ background' = saved
                 /\ durable' = IF storeOk THEN saved ELSE durable
                 /\ server' = Apply(ensured.server, "PUT", key, status, calls + 1)
                 /\ faults' = faults + Cost0(storeOk)
                 /\ BackgroundReturn("webdavBackup", config,
                        Res("webdavBackup", TRUE, "backup uploaded: " \o filename))
    /\ calls' = calls + 1
    /\ UNCHANGED <<cache, logs, now, mode, tempWindows, windows, handlers, resp, tasks, prevEnsure>>

TwoNext ==
    \/ loadConfig
    \/ saveConfig
    \/ backgroundTestConnection
    \/ backgroundUploadBackup

TwoSpec == Init /\ [][TwoNext]_vars

\* ============================================================== claims
\* uploadBackup ran (called directly or by syncOnDataChange) and returned.
UploadReturned == pc = "idle" /\ hist.uploads # <<>>

\* The configuration an operation works with when it starts from cache c
\* and store d and the read goes through.
Effective(c, d) == IF c # NoConfig THEN c ELSE IF d = NoConfig THEN DefaultConfig ELSE d

\* The audit log grew by exactly one entry, with these fields.
OneEntryAppended(trigger, success, message) ==
    /\ Len(logs) = Len(hist.logs0) + 1
    /\ SubSeq(logs, 1, Len(hist.logs0)) = hist.logs0
    /\ Last(logs).trigger = trigger
    /\ Last(logs).success = success
    /\ Last(logs).message = message

\* addSyncLog was called exactly once, with these fields.
OneEntryHanded(trigger, success, message) ==
    /\ Len(hist.logCalls) = 1
    /\ hist.logCalls[1].trigger = trigger
    /\ hist.logCalls[1].success = success
    /\ hist.logCalls[1].message = message

\* C1: when uploadBackup, called with enabled = true, returns, the audit log
\* has grown by exactly one entry, whose trigger is the call's and whose
\* success flag and message are those of the returned result - whichever
\* way the upload ended (read with the log's store accepting the write).
C1_OneEntryPerUpload ==
    (UploadReturned /\ hist.config.enabled /\ ~hist.storeFault) =>
        OneEntryAppended(call.trigger, hist.upResult.success, hist.upResult.message)

\* C2: in proxied mode a send whose every attempt meets "Receiving end does
\* not exist" makes exactly 3 attempts and then throws the translated
\* error; a send whose first attempt is answered with an HTTP response, 4xx
\* and 5xx included, makes exactly 1 attempt and returns that response.  No
\* send makes more than maxRetries attempts.
C2_RetryPolicy ==
    /\ req.attempt <= maxRetries
    /\ (mode = "proxied" /\ resp.attempts > 0) =>
        /\ Len(resp.outcomes) = resp.attempts
        /\ (\A i \in 1..Len(resp.outcomes) : resp.outcomes[i] = "noReceiver") =>
               /\ resp.attempts = 3
               /\ resp.threw
               /\ Contains(resp.message, RetryMarker)
        /\ resp.outcomes[1] = "http" =>
               /\ resp.attempts = 1
               /\ ~resp.threw
               /\ resp.status >= 200

\* C2 happens: three attempts, each without a receiving end.
C2_Witness ==
    /\ mode = "proxied"
    /\ resp.outcomes = <<"noReceiver", "noReceiver", "noReceiver">>
    /\ resp.threw

\* C3: testConnection, uploadBackup, downloadBackup, getBackupList and
\* deleteBackup always return a result and never reject, whatever fails,
\* the load of the configuration from the store included.
C3_NeverRaises ==
    result.op \in {"test", "upload", "download", "list", "delete"} =>
        result.kind = "value"

\* C4 as stated: syncOnDataChange never rejects, and when the configuration
\* check raised, a failure entry with the trigger is in the audit log.
C4_EntryRecorded ==
    (pc = "idle" /\ call.op = "sync") =>
        /\ result = Void("sync")
        /\ hist.loadFailed =>
               /\ Len(logs) = Len(hist.logs0) + 1
               /\ Last(logs).trigger = call.trigger
               /\ ~Last(logs).success

\* C4: syncOnDataChange never rejects; when the configuration check raised,
\* addSyncLog is called once with a failure entry carrying the trigger, and
\* the entry is in the audit log if the log's store took it; if the store
\* rejected it too, the log is as it was.
C4_SyncNeverRaises ==
    /\ result.op = "sync" => result = Void("sync")
    /\ (pc = "idle" /\ call.op = "sync") =>
        /\ result = Void("sync")
        /\ hist.loadFailed =>
               /\ OneEntryHanded(call.trigger, FALSE,
                                 "sync check failed: " \o StorageError)
               /\ hist.logCalls[1].stored =>
                      OneEntryAppended(call.trigger, FALSE,
                                       "sync check failed: " \o StorageError)
               /\ ~hist.logCalls[1].stored => logs = hist.logs0

\* C4 happens: the configuration read rejected, the check failure is logged.
C4_Witness ==
    /\ pc = "idle"
    /\ call.op = "sync"
    /\ hist.loadFailed
    /\ hist.logCalls # <<>>
    /\ hist.logCalls[1].stored
    /\ Len(logs) = Len(hist.logs0) + 1

\* C5: with the configuration it obtained saying enabled = false or
\* auto_sync_on_change = false, syncOnDataChange sends no request, calls
\* neither uploadBackup nor addSyncLog, and leaves the audit log, the stored
\* configuration and the configuration in effect as they were; with both
\* true it calls uploadBackup exactly once, with its trigger.
C5_SyncGate ==
    (call.op = "sync" /\ hist.config # NoConfig) =>
        IF ~hist.config.enabled \/ ~hist.config.auto_sync_on_change
        THEN /\ pc = "idle"
             /\ hist.sent = <<>>
             /\ hist.uploads = <<>>
             /\ hist.exports = 0
             /\ hist.logCalls = <<>>
             /\ logs = hist.logs0
             /\ server = hist.server0
             /\ durable = hist.durable0
             /\ cache = Effective(hist.cache0, hist.durable0)
        ELSE hist.uploads = <<call.trigger>>

\* C5 happens: enabled, auto_sync_on_change off, syncOnDataChange returned.
C5_Witness ==
    /\ pc = "idle"
    /\ call.op = "sync"
    /\ hist.config # NoConfig
    /\ hist.config.enabled
    /\ ~hist.config.auto_sync_on_change
    /\ result = Void("sync")

\* C6: whenever ensureDirectoryExists returns true, every prefix of dirPath
\* is a collection on the server at that moment, whatever the probes and
\* the creation requests were answered.
C6_PathExists ==
    hist.ensured = "true" =>
        LET parts == pathParts(hist.ensurePath)
        IN  \A i \in 1..Len(parts) : SubSeq(parts, 1, i) \in hist.ensureDirs

\* Nothing is at dirPath, and no object that is no collection at a prefix.
PathAbsent(srv, dirPath) ==
    LET parts == pathParts(dirPath)
    IN  /\ Kind(srv, parts) = "none"
        /\ \A i \in 1..Len(parts) : Kind(srv, SubSeq(parts, 1, i)) # "file"

\* Two ensureDirectoryExists calls in sequence on the same path, absent
\* before the first, every request answered unimpaired, the collections
\* untouched in between.
C7_TwoCalls ==
    /\ prevEnsure.ensured # "none"
    /\ hist.ensured # "none"
    /\ prevEnsure.ensureClean
    /\ hist.ensureClean
    /\ prevEnsure.ensurePath = hist.ensurePath
    /\ PathAbsent(prevEnsure.server0, hist.ensurePath)
    /\ hist.server0.dirs = prevEnsure.ensureDirs

\* C7: ensureDirectoryExists is idempotent: the second of two such calls
\* returns true, leaves the collections the first left, and sends nothing
\* but existence probes - no MKCOL.
C7_Idempotent ==
    C7_TwoCalls =>
        /\ prevEnsure.ensured = "true"
        /\ hist.ensured = "true"
        /\ hist.ensureDirs = prevEnsure.ensureDirs
        /\ \A i \in 1..Len(pathParts(hist.ensurePath)) :
               SubSeq(pathParts(hist.ensurePath), 1, i) \in hist.ensureDirs
        /\ hist.sent[1].method = "PROPFIND"
        /\ \A i \in 1..Len(hist.sent) : hist.sent[i].method # "MKCOL"

\* C7 happens: the second upload has returned after such a pair of calls.
C7_Witness ==
    /\ C7_TwoCalls
    /\ pc = "idle"
    /\ prevEnsure.ensureDirs # prevEnsure.server0.dirs

PutRefused == UploadReturned /\ hist.put.status # 0 /\ ~IsOk(hist.put.status)

\* The statuses the switch has a case for.
ClassifiedStatuses == {401, 403, 404, 423, 500, 502, 503, 507}

\* What the diagnostic of a classified status speaks of.
DiagnosticKeyword(status) ==
    CASE status = 401 -> "authentication"
      [] status = 403 -> "permission"
      [] status = 404 -> "path not found"
      [] status = 423 -> "locked"
      [] status = 507 -> "insufficient storage"
      [] status = 500 -> "internal server error"
      [] status = 502 -> "temporarily unavailable"
      [] status = 503 -> "service unavailable"

IsPutDiagnostic(message) == StartsWith(message, "upload failed: ")

\* The status a PUT diagnostic names.
StatusIn(message) == SubSeq(message, 16, 18)

C10_DisabledRefuses ==
    ( /\ call.op \in {"upload", "download", "list", "delete"}
      /\ hist.config # NoConfig
      /\ ~hist.config.enabled ) =>
        /\ pc = "idle"
        /\ result.kind = "value"
        /\ ~result.success
        /\ hist.sent = <<>>
        /\ hist.exports = 0
        /\ server = hist.server0
        /\ durable = hist.durable0
        /\ cache = Effective(hist.cache0, hist.durable0)

\* C10 happens: deleteBackup returned with the backup disabled.
C10_Witness ==
    /\ pc = "idle"
    /\ call.op = "delete"
    /\ hist.config # NoConfig
    /\ ~hist.config.enabled
    /\ result.kind = "value"

\* C11: when one of the two exports fails, uploadBackup has sent nothing at
\* all in that call: no existence probe, no MKCOL, no PUT.
C11_NoRequestBeforeExports ==
    (UploadReturned /\ hist.upResult.message = "upload error: export failed") =>
        hist.sent = <<>>

\* C12: the log never holds more than 50 entries; an append keeps the
\* earlier entries in their order and puts the new one last; appending to a
\* log of 50 evicts exactly the oldest: 50 entries again, the first the former
\* second.
C12_LogCapped ==
    /\ Len(logs) <= 50
    /\ (Len(hist.logCalls) = 1 /\ hist.logCalls[1].stored) =>
        LET old == hist.logs0
            e == hist.logCalls[1]
            new == logs[Len(logs)]
        IN  /\ logs # <<>>
            /\ new.trigger = e.trigger
            /\ new.success = e.success
            /\ new.message = e.message
            /\ IF Len(old) = 50
               THEN /\ Len(logs) = 50
                    /\ \A i \in 1..49 : logs[i] = old[i + 1]
               ELSE /\ Len(logs) = Len(old) + 1
                    /\ \A i \in 1..Len(old) : logs[i] = old[i]

\* An entry was appended to a log of 50.
C12_Witness ==
    /\ Len(hist.logs0) = 50
    /\ Len(hist.logCalls) = 1
    /\ hist.logCalls[1].stored
    /\ logs[50].trigger = "data change"
    /\ ~logs[50].success
    /\ logs[1] = hist.logs0[2]

\* How often `name` occurs in `names`.
Occurrences(names, name) == Cardinality({i \in DOMAIN names : names[i] = name})

C14_NamesAscend ==
    [][(/\ call.filename # ""
        /\ call'.backupTimestamp >= call.backupTimestamp + 1000)
           => StrLess(call.filename, call'.filename)]_vars

\* getBackupList returned the names of a listing it was answered with.
ListParsed == pc = "idle" /\ result.op = "list" /\ result.success

\* C15: of a listing with one collection and one object, in any of the three
\* element-name conventions, with or without a display name on the
\* collection, parseWebDAVResponse returns the object's name and nothing else.
C15_CollectionLeftOut ==
    LET doc == hist.response.doc
    IN  (/\ ListParsed
         /\ doc.prefix \in {"", "d:", "D:"}
         /\ Len(doc.entries) = 2
         /\ doc.entries[1].collection
         /\ doc.entries[1].href = "/bk/"
         /\ doc.entries[2] = [displayname |-> "a.json", href |-> "/bk/a.json",
                              collection |-> FALSE])
            => parseWebDAVResponse(doc) = <<"a.json">>

\* No display name to use: none, or a blank one.
NoDisplayName(e) == e.displayname \in {"", " "}

\* The percent-decoded last path segment of the hrefs listed.
DecodedSegment(href) ==
    CASE href = "/bk/a.json" -> "a.json"
      [] href = "/bk/my%20file.json" -> "my file.json"
      [] OTHER -> ""

DerivedName(e) == IF NoDisplayName(e) THEN DecodedSegment(e.href) ELSE e.displayname

\* The name has to come from an href that cannot be decoded.
Undecodable(e) == NoDisplayName(e) /\ e.href = "/bk/bad%zz.json"

\* C16: parseWebDAVResponse names an entry by its display name if it has a
\* non-empty one, else by the percent-decoded last segment of its href; it
\* returns no empty name, every object with a non-empty derived name, and
\* nothing that is not the derived name of an entry; of a document without
\* response elements it knows, or with a name that cannot be decoded, it
\* returns the empty list, and the list operation returns normally.
C16_DerivedNames ==
    ListParsed =>
        LET doc == hist.response.doc
            entries == doc.entries
            parsed == parseWebDAVResponse(doc)
        IN  /\ result.kind = "value"
            /\ IF \/ doc.prefix \notin {"", "d:", "D:"}
                  \/ entries = <<>>
                  \/ \E i \in DOMAIN entries : Undecodable(entries[i])
               THEN parsed = <<>>
               ELSE /\ \A j \in DOMAIN parsed :
                        /\ parsed[j] # ""
                        /\ \E i \in DOMAIN entries : DerivedName(entries[i]) = parsed[j]
                    /\ \A i \in DOMAIN entries :
                        (~entries[i].collection /\ DerivedName(entries[i]) # "") =>
                            \E j \in DOMAIN parsed : parsed[j] = DerivedName(entries[i])
                    /\ Len(parsed) <= Len(entries)

\* An object named by its display name and one named by its decoded href.
C16_Witness ==
    /\ ListParsed
    /\ hist.response.doc.prefix = "d:"
    /\ hist.response.doc.entries =
           <<[displayname |-> "a.json", href |-> "/bk/bad%zz.json", collection |-> FALSE],
             [displayname |-> " ", href |-> "/bk/my%20file.json", collection |-> FALSE]>>
    /\ result.files = <<"my file.json", "a.json">>

\* The path without its leading and its trailing slash.
PathBody(path) ==
    LET a == IF path # "" /\ SubSeq(path, 1, 1) = "/" THEN Tail(path) ELSE path
    IN  IF a # "" /\ SubSeq(a, Len(a), Len(a)) = "/" THEN SubSeq(a, 1, Len(a) - 1) ELSE a

\* C17: for a server URL with or without a trailing slash and a path with or
\* without a leading and a trailing slash, the normalized URL is the URL
\* without its trailing slash, one slash, and the path's body followed by
\* one slash: one slash between host and path, one at the end, and nothing
\* but the two inputs decides it.
C17_Normalized ==
    (pc = "send" /\ call.op = "list") =>
        LET url == hist.config.server_url
            base == IF SubSeq(url, Len(url), Len(url)) = "/"
                    THEN SubSeq(url, 1, Len(url) - 1) ELSE url
            body == PathBody(hist.config.backup_path)
            n == Len(base)
        IN  /\ req.url = base \o "/" \o body \o (IF body = "" THEN "" ELSE "/")
            /\ SubSeq(req.url, n + 1, n + 1) = "/"
            /\ Len(req.url) > n + 1 => SubSeq(req.url, n + 2, n + 2) # "/"
            /\ SubSeq(req.url, Len(req.url), Len(req.url)) = "/"
            /\ SubSeq(req.url, Len(req.url) - 1, Len(req.url) - 1) # "/"

\* A URL stored with its trailing slash and a path stored without slashes.
C17_Witness ==
    /\ pc = "send"
    /\ call.op = "list"
    /\ hist.config.server_url = "https://h:8080/dav/"
    /\ hist.config.backup_path = "a/b"
    /\ req.url = "https://h:8080/dav/a/b/"

\* The errors of the proxied channel that are not "Receiving end does not
\* exist".
SurfacedAtOnce == {"runtimeInvalid", "timeout", "portClosed", "noResponse", "hostFail"}

\* C19 as stated: in proxied mode an error reaches the caller only after 3
\* attempts, whatever the attempts failed with.
C19_EveryErrorRetried ==
    (mode = "proxied" /\ resp.threw) => resp.attempts = 3

\* C19: in proxied mode only "Receiving end does not exist" is retried: the
\* attempts before the last all met it, and an error reaches the caller
\* either at the 3rd attempt or at the first attempt that fails with a
\* timeout, an invalid runtime, another lastError, an empty response or a
\* failure reported by the host, and it is that attempt's error.
C19_OnlyUnavailableRetried ==
    (mode = "proxied" /\ resp.threw) =>
        LET n == Len(resp.outcomes)
        IN  /\ n = resp.attempts
            /\ n \in 1..3
            /\ \A i \in 1..(n - 1) : resp.outcomes[i] = "noReceiver"
            /\ resp.outcomes[n] \in SurfacedAtOnce \cup {"noReceiver"}
            /\ n < 3 => resp.outcomes[n] \in SurfacedAtOnce
            /\ resp.message = AttemptError(resp.outcomes[n])

\* A timeout at the second attempt reached the caller without a third.
C19_Witness ==
    /\ mode = "proxied"
    /\ resp.threw
    /\ resp.outcomes = <<"noReceiver", "timeout">>
    /\ resp.message = "request timeout"

\* The attempts of the send in progress, or of the one just completed.
AttemptsTraced == IF pc = "send" THEN req.wait.trace ELSE resp.trace

\* A send is under way whose host will never answer.
NeverAnswered ==
    pc = "send" /\ req.wait.phase = "pending" /\ req.wait.answerAt = Never

\* The send has failed with the timeout error.
TimedOut == pc # "send" /\ resp.threw /\ resp.message = "request timeout"

\* The answer to an attempt that timed out arrives.
LateArrival == req.wait.phase = "late" /\ req'.wait.phase = "lateArrived"

\* C18: an attempt that ends in a timeout ends 30 seconds after it was
\* forwarded; a send whose host never answers fails with the timeout error;
\* every proxied send completes; and an answer that arrives after the
\* timeout changes neither what the send reported nor where the operation
\* stands.
C18_TimeoutBounds ==
    /\ [](\A k \in DOMAIN AttemptsTraced :
              AttemptsTraced[k].kind = "timeout" =>
                  AttemptsTraced[k].endedAt = AttemptsTraced[k].forwardedAt + 30000)
    /\ [](TimedOut => resp.completedAt = resp.trace[Len(resp.trace)].forwardedAt + 30000)
    /\ (NeverAnswered ~> TimedOut)
    /\ ((pc = "send") ~> (pc # "send"))
    /\ [][LateArrival => (resp' = resp /\ pc' = pc /\ result' = result /\ hist' = hist)]_vars

\* The answer arrived 40 s after the request was forwarded, 10 s after the
\* send had failed with the timeout error.
C18_Witness ==
    /\ req.wait.phase = "lateArrived"
    /\ pc = "test"
    /\ resp.threw
    /\ resp.message = "request timeout"
    /\ resp.completedAt = StartTime + 30000
    /\ now = StartTime + 40000

\* C20: attempt k + 1 begins k * 1000 ms after attempt k failed; the send
\* ends when its last attempt ends, without a further wait; and the error it
\* throws is the error of its last attempt.
C20_Backoff ==
    /\ \A k \in DOMAIN AttemptsTraced :
           /\ AttemptsTraced[k].attempt = k
           /\ k > 1 => AttemptsTraced[k].forwardedAt =
                            AttemptsTraced[k - 1].endedAt + (k - 1) * 1000
    /\ (pc # "send" /\ resp.trace # <<>>) =>
           LET last == resp.trace[Len(resp.trace)]
           IN  /\ resp.completedAt = last.endedAt
               /\ now = last.endedAt \/ req.wait.phase = "lateArrived"
               /\ resp.threw => resp.message = AttemptError(last.kind)

\* Two attempts found no receiving end, the third timed out: it began 1 s
\* and 2 s after the failures before it, and its error is the one thrown.
C20_Witness ==
    /\ pc = "test"
    /\ Len(resp.trace) = 3
    /\ resp.trace[1].kind = "noReceiver"
    /\ resp.trace[2].forwardedAt = resp.trace[1].endedAt + 1000
    /\ resp.trace[3].forwardedAt = resp.trace[2].endedAt + 2000
    /\ resp.trace[3].kind = "timeout"
    /\ resp.message = "request timeout"
    /\ resp.completedAt = resp.trace[3].forwardedAt + 30000

\* ensureDirectoryExists goes on after a creation request: to the probe of
\* the next prefix, or out of the loop with true.
WalkContinues ==
    \/ /\ pc' = "send"
       /\ req'.method = "PROPFIND"
       /\ call'.idx = call.idx + 1
       /\ Len(hist'.sent) = Len(hist.sent) + 1
    \/ /\ pc' = "export"
       /\ call.idx = Len(call.pathParts)
       /\ hist'.sent = hist.sent
       /\ hist'.ensured = "true"

\* ensureDirectoryExists returns false and nothing more is sent.
WalkGivesUp ==
    /\ pc' = "idle"
    /\ hist'.ensured = "false"
    /\ hist'.sent = hist.sent
    /\ ~result'.success

\* C21 as stated: a creation answered 405 or 409 counts as success and the
\* walk continues.
C21_ConflictCounts ==
    [][(pc = "ensureCreate" /\ ~resp.threw /\ resp.status \in {405, 409})
          => WalkContinues]_vars

\* C21: a creation answered with a success status or 405 counts as success
\* and the walk continues with the next segment; after any other answer,
\* 409 included, and after a transport error ensureDirectoryExists returns
\* false at that segment and sends nothing for the deeper ones.
C21_CreateOutcome ==
    [][pc = "ensureCreate" =>
          IF ~resp.threw /\ (resp.status \in 200..299 \/ resp.status = 405)
          THEN WalkContinues
          ELSE WalkGivesUp]_vars

\* /a is a plain object: its creation was answered 405, the creation of /a/b
\* under it 409, and the walk ended there.
C21_Witness ==
    /\ pc = "idle"
    /\ hist.ensured = "false"
    /\ ~hist.netFault
    /\ <<"a">> \in hist.server0.files
    /\ Len(hist.sent) = 5
    /\ hist.sent[3] = [method |-> "MKCOL", depth |-> "", url |-> "https://h/a/"]
    /\ hist.sent[5] = [method |-> "MKCOL", depth |-> "", url |-> "https://h/a/b/"]

\* C22: testConnection, its configuration loaded, returns the validation
\* failure without a request when enabled is false or server_url or username
\* is empty; otherwise it sends exactly one PROPFIND of depth 0 to server_url
\* and returns success exactly when that was answered with a success status,
\* and a failure result after any other status and after a transport error.
C22_TestConnection ==
    (pc = "idle" /\ result.op = "test" /\ ~hist.loadFailed) =>
        LET config == hist.config
            r == hist.response
        IN  /\ result.kind = "value"
            /\ IF ~config.enabled \/ config.server_url = "" \/ config.username = ""
               THEN /\ hist.sent = <<>>
                    /\ ~result.success
                    /\ result.message = "complete the WebDAV configuration first"
               ELSE /\ hist.sent = <<[method |-> "PROPFIND", depth |-> "0",
                                       url |-> config.server_url]>>
                    /\ result.success = (~r.threw /\ r.status \in 200..299)
                    /\ r.threw => result.message = "connection error: " \o r.message
                    /\ (~r.threw /\ ~result.success) =>
                           result.message = "connection failed: " \o statusLine(r)

\* Enabled with a server URL but no user name: refused without a request.
C22_Witness ==
    /\ pc = "idle"
    /\ result.op = "test"
    /\ hist.config # NoConfig
    /\ hist.config.enabled
    /\ hist.config.server_url = "https://h"
    /\ hist.config.username = ""
    /\ hist.sent = <<>>
    /\ result.message = "complete the WebDAV configuration first"

\* The audit log has the successful upload of the object under `key`.
UploadedOk(key) ==
    \E i \in DOMAIN logs :
        logs[i].success /\ logs[i].message = "backup uploaded: " \o key[Len(key)]

\* C23: the body a successful upload stored under a snapshot name stays as
\* it is unless a delete removes it: no later operation replaces it.
C23_SnapshotsImmutable ==
    [][\A p \in server.body :
          (p[2] > 0 /\ UploadedOk(p[1]) /\ p \notin server'.body)
              => req.method = "DELETE"]_vars

PutsSent == {i \in DOMAIN hist.sent : hist.sent[i].method = "PUT"}

\* C25: an upload goes from the directory check over the directory
\* creations to the PUT and then ends: the PUT is sent only after
\* ensureDirectoryExists returned true in that call, there is at most one
\* PUT, no probe and no creation is sent after it, and when
\* ensureDirectoryExists returned false the call ends with the failure
\* "cannot create backup directory" and without a PUT.
C25_UploadSequence ==
    (call.op \in {"upload", "sync"}) =>
        /\ Cardinality(PutsSent) <= 1
        /\ \A i \in PutsSent : i = Len(hist.sent) /\ i > 1 /\ hist.ensured = "true"
        /\ \A i \in DOMAIN hist.sent :
               /\ hist.sent[i].method \in {"PROPFIND", "MKCOL", "PUT"}
               /\ hist.sent[i].method = "MKCOL" =>
                      i > 2 /\ hist.sent[i - 1].method = "PROPFIND"
        /\ hist.sent # <<>> => hist.sent[1].method = "PROPFIND"
        /\ (pc \in {"put", "logSuccess"}) => PutsSent # {}
        /\ (pc = "send" /\ req.method = "PUT") => hist.exports = 2
        /\ hist.ensured = "false" =>
               /\ pc = "idle"
               /\ PutsSent = {}
               /\ hist.exports = 0
               /\ hist.upResult = Res("upload", FALSE, "cannot create backup directory")

\* An upload whose directory creation was refused: it ended without a PUT.
C25_Witness ==
    /\ pc = "idle"
    /\ call.op = "upload"
    /\ hist.ensured = "false"
    /\ \E i \in DOMAIN hist.sent : hist.sent[i].method = "MKCOL"
    /\ PutsSent = {}
    /\ result.message = "cannot create backup directory"

\* An upload has ended, and not in success: it returned a failure or raised.
UploadFailed ==
    /\ pc = "idle"
    /\ call.op \in {"upload", "sync"}
    /\ \/ hist.uploads # <<>> /\ ~hist.upResult.success
       \/ call.op = "upload" /\ result.kind = "raised"

\* The operation left the configuration as it was: the store untouched, the
\* cache what getConfig returned.
ConfigKept == durable = hist.durable0 /\ cache = hist.config

\* The operation left the server's objects and their bodies as they were.
NoObjectCreated ==
    server.files = hist.server0.files /\ server.body = hist.server0.body

\* C26: an upload that does not end in success leaves every field of the
\* cached and of the stored configuration as it was, and creates no
\* snapshot object.
C26_FailedUploadFrame == UploadFailed => (ConfigKept /\ NoObjectCreated)

\* The cache after this step is the cache before it, or getConfig has
\* filled the empty cache from the store.
CacheKeptOrFilled ==
    \/ cache' = cache
    \/ /\ cache = NoConfig
       /\ cache' = IF durable = NoConfig THEN DefaultConfig ELSE durable

\* C27: no step of testConnection, downloadBackup, getBackupList or
\* deleteBackup, and no step of sendWebDAVRequest, changes the stored or the
\* cached configuration or the audit log; of the operations that talk to
\* the server only an upload, manual or by syncOnDataChange, writes them.
C27_ReadOnlyOperations ==
    [][/\ (call'.op \in {"test", "download", "list", "delete"}) =>
              /\ durable' = durable
              /\ logs' = logs
              /\ CacheKeptOrFilled
       /\ (pc = "send") => UNCHANGED <<cache, durable, logs>>
       /\ (durable' # durable \/ logs' # logs \/ ~CacheKeptOrFilled) =>
              call'.op \in {"upload", "sync", "save"}]_vars

\* A delete that removed an object returned, with the audit log and the
\* configuration an earlier upload had written still as they were.
C27_Witness ==
    /\ pc = "idle"
    /\ call.op = "delete"
    /\ result.success
    /\ server.files # hist.server0.files
    /\ hist.logs0 # <<>>
    /\ logs = hist.logs0
    /\ durable = hist.durable0
    /\ cache = hist.cache0

\* What a read of the store gives getConfig: the stored configuration, or
\* the default one while none is stored.
Stored == IF durable = NoConfig THEN DefaultConfig ELSE durable

\* C28: between the operations of getConfig, saveConfig and uploadBackup,
\* storage writes that fail included, the cached configuration is the
\* stored one.
C28_CacheIsStored == (pc = "idle" /\ cache # NoConfig) => cache = Stored

\* The entry the attempt of trigger t handed to addSyncLog is in the log.
EntryKept(t) == \E i \in DOMAIN logs : logs[i] = tasks[t].entry

\* C29: when the addSyncLog calls of two overlapping upload attempts, and a
\* clearing of the log, have all completed, the log holds the entry of each
\* attempt whose storage calls went through and that was not cleared after
\* it was written, however the reads and the writes were interleaved.
C29_NoEntryLost ==
    (\A t \in DOMAIN tasks : tasks[t].phase = "done") =>
        \A t \in DOMAIN tasks :
            (~tasks[t].failed /\ ~tasks[t].cleared) => EntryKept(t)

\* C30: with the options page's and the background's instance over one
\* store, and no storage call failing, every operation of the background
\* works on the configuration the store held when it started, every save
\* of the options page starts from the stored configuration, and no save
\* sets last_backup_time back.
C30_SharedStore ==
    [][(faults' = 0) =>
          /\ (call'.op \in {"webdavTest", "webdavBackup"}) =>
                 hist'.config = IF hist'.durable0 = NoConfig
                                THEN LegacyDefaultConfig ELSE hist'.durable0
          /\ (call'.op = "save") =>
                 hist'.config = IF hist'.durable0 = NoConfig
                                THEN DefaultConfig ELSE hist'.durable0
          /\ (durable # NoConfig /\ durable' # NoConfig) =>
                 durable'.last_backup_time >= durable.last_backup_time]_vars

\* The answer of a probe reports the collection present.
Present(r) == ~r.threw /\ r.status \in 200..299

\* The path of the first k segments, as the walk accumulates it.
RECURSIVE PrefixPath(_, _)
PrefixPath(parts, k) ==
    IF k = 0 THEN "" ELSE PrefixPath(parts, k - 1) \o "/" \o parts[k]

\* The requests ensureDirectoryExists has sent in an upload: all but the PUT.
EnsureSent(sent) == SelectSeq(sent, LAMBDA r : r.method # "PUT")

\* The requests e are in the order of the walk over the segments of
\* config.backup_path: the probe of the whole path, then per prefix from the
\* root a probe and, directly after it and for the same URL, at most one
\* creation; a prefix comes only after the one that is one segment shorter.
WalkOrder(e, config) ==
    LET parts == pathParts(config.backup_path)
        n == Len(parts)
        url(k) == normalizePath(config.server_url, PrefixPath(parts, k))
        probes == {i \in DOMAIN e : e[i].method = "PROPFIND"}
        creations == {i \in DOMAIN e : e[i].method = "MKCOL"}
    IN  /\ e # <<>> =>
               e[1] = [method |-> "PROPFIND", depth |-> "0",
                       url |-> normalizePath(config.server_url, config.backup_path)]
        /\ \A i \in DOMAIN e : i > 1 =>
               \E k \in 1..n :
                   /\ e[i].url = url(k)
                   /\ e[i].method = "PROPFIND" =>
                          /\ e[i].depth = "0"
                          /\ IF k = 1 THEN i = 2
                             ELSE i > 2 /\ e[i - 1].url = url(k - 1)
                   /\ e[i].method = "MKCOL" =>
                          /\ i > 2
                          /\ e[i - 1].method = "PROPFIND"
                          /\ e[i - 1].url = url(k)
        /\ Cardinality(probes) <= n + 1
        /\ Cardinality(creations) <= n

\* C31: ensureDirectoryExists sends its requests in a fixed order: the
\* probe of the whole path first; when that reports the path present it
\* returns true with no further request; otherwise it probes the prefixes
\* from the root to the leaf, asks for the creation of a prefix only directly
\* after the probe of that prefix reported it absent, and sends at most n + 1
\* probes and n creation requests for a path of n segments.
C31_EnsureOrder ==
    [][(call'.op \in {"upload", "sync"} /\ hist'.config # NoConfig) =>
          /\ WalkOrder(EnsureSent(hist'.sent), hist'.config)
          /\ (pc = "ensureFirst" /\ Present(resp)) =>
                 /\ pc' = "export"
                 /\ hist'.ensured = "true"
                 /\ Len(hist'.sent) = 1
          /\ (pc # "send" /\ pc' = "send" /\ req'.method = "MKCOL") =>
                 /\ pc = "ensureProbe"
                 /\ ~Present(resp)
                 /\ req'.url = hist.sent[Len(hist.sent)].url
          /\ (pc = "ensureProbe" /\ ~Present(resp)) =>
                 (pc' = "send" /\ req'.method = "MKCOL")]_vars

\* Both segments of a/b/ were probed and created, in that order, after the
\* probe of the whole path.
C31_Witness ==
    /\ call.op = "upload"
    /\ hist.ensured = "true"
    /\ hist.config.backup_path = "a/b/"
    /\ Len(hist.sent) >= 5
    /\ [i \in 1..5 |-> hist.sent[i].method]
           = <<"PROPFIND", "PROPFIND", "MKCOL", "PROPFIND", "MKCOL">>
    /\ hist.sent[3].url = "https://h/a/"
    /\ hist.sent[5].url = "https://h/a/b/"

\* C32: in direct mode as in proxied mode a request that was sent does not
\* stay pending for ever: sendWebDAVRequest returns or throws, after the 30
\* seconds of the timeout at the latest when no answer comes.
C32_RoundTripBounded == (pc = "send") ~> (pc # "send")

\* C33: whatever the attempts of a request meet, sendWebDAVRequest makes at
\* least one and at most three of them; in direct mode it makes exactly one;
\* and an attempt that was answered with a response is the last one.
C33_AttemptsBounded ==
    /\ (pc = "send") =>
           /\ req.attempt \in 1..maxRetries
           /\ Len(req.outcomes) = req.attempt - 1
           /\ \A i \in DOMAIN req.outcomes : req.outcomes[i] # "http"
           /\ mode = "direct" => req.attempt = 1
    /\ (resp # NoResp) =>
           /\ resp.attempts \in 1..maxRetries
           /\ Len(resp.outcomes) = resp.attempts
           /\ \A i \in 1..(resp.attempts - 1) : resp.outcomes[i] # "http"
           /\ resp.threw = (resp.outcomes[resp.attempts] # "http")
           /\ mode = "direct" => resp.attempts = 1

\* In direct mode the one attempt failed and the request threw.
C33_Witness ==
    /\ mode = "direct"
    /\ resp.attempts = 1
    /\ resp.outcomes = <<"fetchFail">>
    /\ resp.threw

\* C34: the host answers a webdavRequest message with exactly one response:
\* success: true with ok, status and statusText of whatever HTTP response
\* the server gave, 4xx and 5xx included, and success: false with a message
\* only when its fetch raised.  sendWebDAVRequest returns the former as a
\* response of that status, and throws on the latter, on a missing response
\* and on an error of the channel.
C34_HostResponse ==
    (resp # NoResp) =>
        LET d == resp.trace[Len(resp.trace)]
            kind == resp.outcomes[Len(resp.outcomes)]
            relayed == d.lastError = "" /\ d.responses # <<>> /\ d.responses[1].success
        IN  /\ Len(resp.trace) = resp.attempts
            /\ \A i \in DOMAIN resp.trace :
                   /\ Len(resp.trace[i].responses) <= 1
                   /\ (resp.outcomes[i] \in {"http", "hostFail"}) =
                          (Len(resp.trace[i].responses) = 1)
                   /\ resp.trace[i].responses # <<>> =>
                          /\ resp.trace[i].lastError = ""
                          /\ resp.trace[i].responses[1].success
                                 = (resp.outcomes[i] = "http")
                          /\ ~resp.trace[i].responses[1].success =>
                                 resp.trace[i].responses[1].message # ""
            /\ resp.threw = ~relayed
            /\ relayed =>
                   /\ kind = "http"
                   /\ resp.status = d.responses[1].data.status
                   /\ resp.ok = (resp.status \in 200..299)
                   /\ resp.statusText = d.responses[1].data.statusText
                   /\ resp.doc = d.responses[1].data.text
            /\ resp.threw => resp.message = AttemptError(kind)

\* The server answered 401: the host relayed it under success: true and the
\* request returned a response of status 401.
C34_Witness ==
    /\ resp # NoResp
    /\ ~resp.threw
    /\ resp.status = 401
    /\ resp.trace[Len(resp.trace)].responses[1].success
    /\ ~resp.trace[Len(resp.trace)].responses[1].data.ok

\* The instants at which an upload can take its timestamp.
SnapshotTimes == {StartTime + k * 1000 : k \in 0..MaxTicks}

\* C35: whenever the audit log shows the success entry of a snapshot, the
\* stored configuration's last_backup_time is at least the timestamp of
\* that snapshot: the configuration is persisted before the entry is
\* appended.
C35_PersistedBeforeLogged ==
    \A i \in DOMAIN logs : \A T \in SnapshotTimes :
        (logs[i].success /\ logs[i].message = "backup uploaded: " \o backupFilename(T))
            => (durable # NoConfig /\ durable.last_backup_time >= T)

\* A handleAutoDetectSite call has sent its response.
DetectResponded(r) ==
    /\ handlers[r].action = "autoDetectSite"
    /\ handlers[r].response.sent

\* C36: once handleAutoDetectSite has sent its response, success or failure,
\* the window it created is closed and tempWindows has no entry for the
\* request id; and tempWindows holds no entry for a window that was removed,
\* once the onRemoved listener has run for it.
C36_TempWindowsCleaned ==
    /\ \A r \in RequestIds :
        DetectResponded(r) =>
            /\ handlers[r].window.id \notin windows.open
            /\ r \notin DOMAIN tempWindows
    /\ \A r \in DOMAIN tempWindows :
        tempWindows[r] \in windows.open \cup windows.removed

====
